---- MODULE Spec2Model ----
(***************************************************************************)
(* A model of the session and generation orchestrator of the               *)
(* Character.AI <-> Discord bridge: the session store with its             *)
(* single-writer persistence queue (utils/func.py), the message cache      *)
(* (utils/func.py), the inactivity monitor and response trigger            *)
(* (utils/AI_utils.py) and the response queue workers (cai.py).            *)
(*                                                                         *)
(* The program runs on one asyncio event loop: a coroutine runs without    *)
(* interruption from one `await` that suspends to the next, so every       *)
(* action below is the code between two suspension points.                 *)
(*                                                                         *)
(* The module holds several specifications over one set of variables,      *)
(* each moving one part of the program and holding the rest still:         *)
(*   SpecStore     the session store, its writer task and BridgeBot.close  *)
(*   SpecCapture   capture_message on the message cache                    *)
(*   SpecDispatch  the response queue, its workers and cai_response        *)
(*   SpecPipeline  one persona from captured message to delivered reply:   *)
(*                 message handler, inactivity monitor, AI_send_message,   *)
(*                 the workers, handle_response and remove_ai              *)
(*   SpecMonitor   the same with the clock and typing events, for the      *)
(*                 monitor's time and size triggers                        *)
(*   SpecChat      a persona set up without a conversation: new_chat_id    *)
(*                 called by /setup and by AI_send_message                 *)
(*   SpecApi       the users of api_semaphore: the workers and two /setup  *)
(*                 commands in new_chat_id                                 *)
(*   SpecReply     the persona with replies of every shape, for the text   *)
(*                 handle_response sends                                   *)
(*   SpecMute      the message handler with a muted user                   *)
(*   SpecRemove    remove_session_data with clear_message_cache, among     *)
(*                 updates, captures and the writer task                   *)
(*   SpecFile      read_json and write_json calls of three threads under   *)
(*                 session_lock                                            *)
(*   SpecRecheck   the persona's AI_send_message task in its 3 s wait,     *)
(*                 with the clock, typing events and messages              *)
(*   SpecClear     the persona while users write in another channel        *)
(*   SpecShared    the requests of two personas bound to one channel       *)
(*   SpecDeliver   the persona that stays set up, with deliveries that     *)
(*                 succeed, raise or find no target, and fair workers      *)
(*   SpecWrite     the session store with durable writes that may fail,    *)
(*                 and a fair writer task                                  *)
(*   SpecLock      _process_channel_message under the channel locks        *)
(*   SpecTyping    typing events and the writer task                       *)
(***************************************************************************)
EXTENDS Integers, Sequences, FiniteSets, TLC

(***************************************************************************)
(* Bounds of the model.                                                    *)
(***************************************************************************)
\* update_session_data / remove_session_data calls explored in one run
MaxCalls == 3

\* capture_message calls explored in one run
MaxCaptures == 3

\* messages sent to the channel in one run of SpecMonitor
MaxMessages == 5

\* the last tick of the clock
MaxTime == 3

\* AI_send_message tasks the monitor creates in one run
MaxTasks == 3

\* the (server, channel) keys of the session store; one server, two channels
Keys == {"c1", "c2"}

VARIABLES
    \* ---- session store (utils/func.py) ----
    session_cache,         \* func.session_cache, per (server, channel) key
    session_update_queue,  \* func.session_update_queue: the queued jobs, oldest first
    unfinished_tasks,      \* the queue's count of jobs not yet task_done() (what join() waits on)
    session_json,          \* the file session.json, per key
    upd_pc,                \* where the process_session_updates task stands
    upd_job,               \* the job it dequeued
    upd_data,              \* the session_data it read from session.json
    close_pc,              \* where BridgeBot.close stands
    n_calls,               \* calls made so far (bounds the run, numbers the values)
    last_call,             \* history: per key, the state the last call asked for
    calls_on,              \* history: per key, the number of calls made
    max_pending,           \* history: the longest the queue has been
    \* ---- message cache (utils/func.py) ----
    messages_cache,        \* the file messages_cache.json, per (server, channel) key
    cap_config,            \* the "config" of the first AI of the channel, as capture_message reads it
    n_captures,            \* messages handled so far (bounds the run, numbers the messages)
    last_msg,              \* history: the message of the last capture_message call
    \* ---- response queue and its workers (cai.py) ----
    response_queue,        \* cai.response_queue: the queued requests, oldest first
    submitted,             \* the requests queue_response has been called for
    api_permits,           \* the free permits of cai.api_semaphore
    AI_response,           \* the module-level global cai.AI_response
    worker,                \* per process_response_queue task: where it stands and its locals
    sends,                 \* history: per request, the outcomes of its upstream send_message calls
    cb_log,                \* history: per request, the texts its callback was called with
    \* ---- one persona of channel c1 (utils/AI_utils.py) ----
    now,                   \* time.time(), in ticks
    session,               \* the persona's session dict; whether get_session_data still leads to
                           \* it (exists); the "chat_id" key of the channel's dict of AIs
    gen_config,            \* session["config"]: delay_for_generation, cache_count_threshold,
                           \* remove_ai_emoji, send_message_line_by_line
    processing_channels,   \* discord_AI_bot.processing_channels
    monitor,               \* the persona's _monitor_ai_inactivity task (the one active_tasks
                           \* holds) and the number of other such tasks alive
    tasks,                 \* the AI_send_message tasks created so far; active_tasks holds the last
    remover,               \* the /remove_ai command in progress
    last_activity,         \* history: when the last message was captured or typing was seen
    clear_log,             \* history: messages the last clear of handle_response wiped although
                           \*          they were captured after the worker read its snapshot
    \* ---- the persona's conversation (cai.py, commands/ai_manager.py) ----
    chat_cmd,              \* per command that awaits initialize_session_messages: where it stands
    created,               \* the conversations create_chat has made for the persona so far
    \* ---- the capture of a message under the channel lock (utils/AI_utils.py) ----
    channel_locks,         \* self.channel_locks: per channel, the asyncio.Lock
    capturer,              \* per _process_channel_message call: where it stands
    \* ---- the JSON files and their lock (utils/func.py) ----
    session_lock,          \* func.session_lock, a threading.Lock: the call that holds it
    file_call              \* per thread that calls read_json / write_json: where it stands

storeVars == <<session_cache, session_update_queue, unfinished_tasks, session_json,
               upd_pc, upd_job, upd_data, close_pc, n_calls, last_call, calls_on,
               max_pending>>

capVars == <<messages_cache, cap_config, n_captures, last_msg>>

dispVars == <<response_queue, submitted, api_permits, AI_response, worker, sends, cb_log>>

pipeVars == <<now, session, gen_config, processing_channels, monitor, tasks, remover,
              last_activity, clear_log>>

fileVars == <<session_lock, file_call>>

lockVars == <<channel_locks, capturer, fileVars>>

chatVars == <<chat_cmd, created, lockVars>>

pipeVarsButTasks == <<now, session, gen_config, processing_channels, monitor, remover,
                      last_activity, clear_log>>

vars == <<storeVars, capVars, dispVars, pipeVars, chatVars>>

\* what the actions of each part leave alone
nonStoreVars == <<capVars, dispVars, pipeVars, chatVars>>
nonCapVars == <<storeVars, dispVars, pipeVars, chatVars>>
nonDispVars == <<storeVars, capVars, pipeVars, chatVars>>

(***************************************************************************)
(* Session store: utils/func.py                                            *)
(***************************************************************************)
\* A key that was never written, a key holding None (what remove leaves
\* behind: update_session_data(server, channel, None)), and a key holding
\* session data; data is told apart by the number of the call that wrote it.
NoEntry == [tag |-> "absent", v |-> 0]
NoneVal == [tag |-> "None", v |-> 0]
Data(n) == [tag |-> "data", v |-> n]
StoreVals == {NoEntry, NoneVal} \cup {Data(n) : n \in 0..MaxCalls}

\* get_session_data: session_cache.get(server, {}).get("channels", {}).get(channel)
\* returns None for a missing key and for a key holding None.
get_session_data(cache, k) == IF cache[k].tag = "data" THEN cache[k] ELSE NoneVal

\* `channel_id in session_cache[server_id].get("channels", {})`: key presence,
\* true also for a key holding None.
is_channel_active(cache, k) == cache[k].tag # "absent"

NoJob == [key |-> "none", data |-> NoEntry]

\* update_session_data: write the in-memory cache, then put the job on the queue.
\* The queue is unbounded, so put() never suspends.
update_session_data(k, data) ==
    /\ session_cache' = [session_cache EXCEPT ![k] = data]
    /\ session_update_queue' = Append(session_update_queue, [key |-> k, data |-> data])
    /\ unfinished_tasks' = unfinished_tasks + 1
    /\ max_pending' = IF Len(session_update_queue) + 1 > max_pending
                      THEN Len(session_update_queue) + 1 ELSE max_pending

\* A caller (a command, a message handler) updates the session of key k.
\* Callers are explored until close begins.
Update(k) ==
    /\ close_pc = "running"
    /\ n_calls < MaxCalls
    /\ n_calls' = n_calls + 1
    /\ update_session_data(k, Data(n_calls + 1))
    /\ last_call' = [last_call EXCEPT ![k] = Data(n_calls + 1)]
    /\ calls_on' = [calls_on EXCEPT ![k] = @ + 1]
    /\ UNCHANGED <<session_json, upd_pc, upd_job, upd_data, close_pc>>
    /\ UNCHANGED nonStoreVars

\* remove_session_data, up to its call of clear_message_cache: when the key is
\* in the cache it is deleted and update_session_data(server, channel, None)
\* puts it back holding None and queues the None job; otherwise nothing is queued.
remove_session_data(k) ==
    /\ close_pc = "running"
    /\ n_calls < MaxCalls
    /\ n_calls' = n_calls + 1
    /\ IF is_channel_active(session_cache, k)
       THEN update_session_data(k, NoneVal)
       ELSE UNCHANGED <<session_cache, session_update_queue, unfinished_tasks, max_pending>>
    /\ last_call' = [last_call EXCEPT ![k] = NoneVal]
    /\ calls_on' = [calls_on EXCEPT ![k] = @ + 1]
    /\ UNCHANGED <<session_json, upd_pc, upd_job, upd_data, close_pc>>

Remove(k) ==
    /\ remove_session_data(k)
    /\ UNCHANGED nonStoreVars

\* session_update_queue.get(): the oldest job and the rest of the queue.
QueueGetLast(q) == <<q[Len(q)], SubSeq(q, 1, Len(q) - 1)>>
QueueGet(q) == <<Head(q), Tail(q)>>

\* process_session_updates, line 431: take a job, then suspend in
\* asyncio.to_thread(read_json, "session.json").
UpdGet ==
    /\ upd_pc = "get"
    /\ session_update_queue # <<>>
    /\ upd_job' = QueueGet(session_update_queue)[1]
    /\ session_update_queue' = QueueGet(session_update_queue)[2]
    /\ upd_pc' = "read"
    /\ UNCHANGED <<session_cache, unfinished_tasks, session_json, upd_data, close_pc,
                   n_calls, last_call, calls_on, max_pending>>
    /\ UNCHANGED nonStoreVars

\* lines 435-442: the file is read, the job's key is set in the copy, and the
\* task suspends in asyncio.to_thread(write_json, ...).
UpdRead ==
    /\ upd_pc = "read"
    /\ upd_data' = [session_json EXCEPT ![upd_job.key] = upd_job.data]
    /\ upd_pc' = "write"
    /\ UNCHANGED <<session_cache, session_update_queue, unfinished_tasks, session_json,
                   upd_job, close_pc, n_calls, last_call, calls_on, max_pending>>
    /\ UNCHANGED nonStoreVars

\* line 444: the thread writes the whole copy to session.json.
UpdWrite ==
    /\ upd_pc = "write"
    /\ session_json' = upd_data
    /\ upd_pc' = "written"
    /\ UNCHANGED <<session_cache, session_update_queue, unfinished_tasks, upd_job, upd_data,
                   close_pc, n_calls, last_call, calls_on, max_pending>>
    /\ UNCHANGED nonStoreVars

\* write_json, lines 410-416, when the write fails: open() raises and the file
\* is as it was, or json.dump raises after open(file, 'w') has truncated the
\* file, and what is left does not parse: read_json then replaces it by {}
\* (lines 393-397), the file of no session.  write_json logs the error and
\* returns None.
UpdWriteFail(truncated) ==
    /\ upd_pc = "write"
    /\ session_json' = IF truncated THEN [k \in Keys |-> NoEntry] ELSE session_json
    /\ upd_pc' = "failed"
    /\ UNCHANGED <<session_cache, session_update_queue, unfinished_tasks, upd_job, upd_data,
                   close_pc, n_calls, last_call, calls_on, max_pending>>
    /\ UNCHANGED nonStoreVars

\* process_session_updates where an error of the write ends the task.
UpdDoneFatal ==
    /\ upd_pc \in {"written", "failed"}
    /\ IF upd_pc = "failed"
       THEN /\ upd_pc' = "ended"
            /\ UNCHANGED <<session_cache, unfinished_tasks, upd_job>>
       ELSE /\ session_cache' = [session_cache EXCEPT ![upd_job.key] = upd_job.data]
            /\ unfinished_tasks' = unfinished_tasks - 1
            /\ upd_job' = NoJob
            /\ upd_pc' = "get"
    /\ UNCHANGED <<session_update_queue, session_json, upd_data, close_pc,
                   n_calls, last_call, calls_on, max_pending>>
    /\ UNCHANGED nonStoreVars

\* lines 446-453: the task resumes (write_json has returned, whether the write
\* failed or not), sets the in-memory cache to the job's data and marks the
\* job done.
UpdDone ==
    /\ upd_pc \in {"written", "failed"}
    /\ session_cache' = [session_cache EXCEPT ![upd_job.key] = upd_job.data]
    /\ unfinished_tasks' = unfinished_tasks - 1
    /\ upd_job' = NoJob
    /\ upd_pc' = "get"
    /\ UNCHANGED <<session_update_queue, session_json, upd_data, close_pc,
                   n_calls, last_call, calls_on, max_pending>>
    /\ UNCHANGED nonStoreVars

\* BridgeBot.close, lines 69-74: update_processor.cancel() and the await of the
\* cancelled task.  CancelledError is raised in the writer at the await it is
\* suspended in; it is not an Exception, so neither `except Exception` nor its
\* task_done() runs and the task ends.  A write already handed to the thread
\* may still reach the file or not.
CloseCancel ==
    /\ close_pc = "running"
    /\ close_pc' = "join"
    /\ upd_pc' = "cancelled"
    /\ \/ UNCHANGED session_json
       \/ /\ upd_pc = "write"
          /\ session_json' = upd_data
    /\ UNCHANGED <<session_cache, session_update_queue, unfinished_tasks, upd_job, upd_data,
                   n_calls, last_call, calls_on, max_pending>>
    /\ UNCHANGED nonStoreVars

\* BridgeBot.close, line 77: session_update_queue.join() returns once every
\* queued job has been marked done; then super().close().
CloseJoin ==
    /\ close_pc = "join"
    /\ unfinished_tasks = 0
    /\ close_pc' = "closed"
    /\ UNCHANGED <<session_cache, session_update_queue, unfinished_tasks, session_json,
                   upd_pc, upd_job, upd_data, n_calls, last_call, calls_on, max_pending>>
    /\ UNCHANGED nonStoreVars

\* setup_hook: load_session_cache() fills the cache from session.json, then
\* the writer task is started.
InitStore ==
    /\ session_json \in [Keys -> {NoEntry, Data(0)}]
    /\ session_cache = session_json
    /\ session_update_queue = <<>>
    /\ unfinished_tasks = 0
    /\ upd_pc = "get"
    /\ upd_job = NoJob
    /\ upd_data = session_json
    /\ close_pc = "running"
    /\ n_calls = 0
    /\ last_call = [k \in Keys |-> get_session_data(session_json, k)]
    /\ calls_on = [k \in Keys |-> 0]
    /\ max_pending = 0

(***************************************************************************)
(* Message cache: utils/func.py                                            *)
(*                                                                         *)
(* A text is a sequence of tokens: words, a whitespace token, an emoji     *)
(* token, a token that the configured regex patterns match, and "\n".      *)
(* The clock of the {time} field ("%H:%M") is held fixed: the captures     *)
(* explored happen within one minute.                                      *)
(***************************************************************************)
WS == " "
EMOJI == "EMOJI"
ACT == "*act*"
NL == "\n"

RemoveTokens(t, S) == SelectSeq(t, LAMBDA x : x \notin S)

\* str.strip(): leading and trailing whitespace removed.
RECURSIVE LStrip(_)
LStrip(t) == IF t # <<>> /\ Head(t) = WS THEN LStrip(Tail(t)) ELSE t
RECURSIVE RStrip(_)
RStrip(t) == IF t # <<>> /\ t[Len(t)] = WS THEN RStrip(SubSeq(t, 1, Len(t) - 1)) ELSE t
Strip(t) == RStrip(LStrip(t))

\* remove_emoji: the emoji are removed and the result is stripped.
remove_emoji(t) == Strip(RemoveTokens(t, {EMOJI}))

\* `for pattern in patterns: text = re.sub(pattern, '', text).strip()`
re_sub_all(patterns, t) == IF patterns = {} THEN t ELSE Strip(RemoveTokens(t, patterns))

\* text.endswith(suffix)
EndsWith(t, suffix) ==
    /\ Len(suffix) <= Len(t)
    /\ SubSeq(t, Len(t) - Len(suffix) + 1, Len(t)) = suffix

\* template.format(**syntax): every placeholder is replaced by its text.
RECURSIVE Format(_, _)
Format(template, syntax) ==
    IF template = <<>> THEN <<>>
    ELSE (IF Head(template) \in DOMAIN syntax
          THEN syntax[Head(template)] ELSE <<Head(template)>>)
         \o Format(Tail(template), syntax)

\* The default templates of a new AI (commands/ai_manager.py, config_default)
\* and the "{message}" that capture_message falls back to.
DefaultFormat == <<"[msg]", "{time}", "{username}", "{name}", "Message:", "{message}", "----">>
DefaultReplyFormat == <<"[reply]", "{reply_username}", "{reply_name}", "Reply:", "{reply_message}",
                        "{time}", "{username}", "{name}", "Message:", "{message}", "----">>
PlainFormat == <<"{message}">>
\* a template an administrator may set with /config: the text, then its author
SignedFormat == <<"{message}", "~", "{name}">>

DefaultConfig == [user_format_syntax |-> DefaultFormat,
                  user_reply_format_syntax |-> DefaultReplyFormat,
                  remove_user_emoji |-> TRUE,
                  remove_user_text_from |-> {ACT}]

\* The configurations explored: the default one and two set with /config.
Configs == {DefaultConfig,
            [DefaultConfig EXCEPT !.user_format_syntax = PlainFormat,
                                  !.user_reply_format_syntax = PlainFormat],
            [DefaultConfig EXCEPT !.user_format_syntax = SignedFormat,
                                  !.remove_user_emoji = FALSE]}

\* The discord messages explored.
Authors == {[username |-> "ann", name |-> "Ann"], [username |-> "bob", name |-> "Bob"]}
Contents == {<<"hi">>, <<"yo">>, <<EMOJI>>, <<"hi", WS, ACT>>}
NoMsg == [channel |-> "none", author |-> [username |-> "", name |-> ""], content |-> <<>>,
          webhook |-> FALSE, reply |-> FALSE]
\* the message a reply refers to (message.reference), fetched by the caller
RefAuthor == [username |-> "bob", name |-> "Bob"]
RefContent == <<"yo", EMOJI>>
Msgs ==
    {[channel |-> k, author |-> a, content |-> c, webhook |-> FALSE, reply |-> FALSE] :
        k \in Keys, a \in Authors, c \in Contents}
    \cup {[channel |-> k, author |-> [username |-> "ann", name |-> "Ann"], content |-> <<"hi">>,
           webhook |-> FALSE, reply |-> TRUE] : k \in Keys}
    \cup {[channel |-> k, author |-> [username |-> "hook", name |-> "Hook"], content |-> <<"hi">>,
           webhook |-> TRUE, reply |-> FALSE] : k \in Keys}

\* A channel's entry of messages_cache.json: the key may be missing; its value
\* is an ordered mapping from "Message{n}" / "Reply" to text.
NoCache == [present |-> FALSE, entries |-> <<>>]
MessageKey(n) == [kind |-> "Message", n |-> n]
ReplyKey == [kind |-> "Reply", n |-> 0]

\* capture_message, lines 290-326: what a capture makes of the channel's entries.
CaptureEntries(entries, cfg, m) ==
    LET msg_text == IF cfg.remove_user_emoji THEN remove_emoji(m.content) ELSE m.content
        msg_name == IF cfg.remove_user_emoji THEN remove_emoji(<<m.author.name>>)
                    ELSE <<m.author.name>>
        reply_text == IF cfg.remove_user_emoji THEN remove_emoji(RefContent) ELSE RefContent
        reply_name == IF cfg.remove_user_emoji THEN remove_emoji(<<RefAuthor.name>>)
                      ELSE <<RefAuthor.name>>
        syntax == ("{time}" :> <<"12:00">>) @@ ("{username}" :> <<m.author.username>>)
                  @@ ("{name}" :> msg_name)
                  @@ ("{message}" :> re_sub_all(cfg.remove_user_text_from, msg_text))
        reply_syntax == syntax @@ ("{reply_username}" :> <<RefAuthor.username>>)
                  @@ ("{reply_name}" :> reply_name)
                  @@ ("{reply_message}" :> re_sub_all(cfg.remove_user_text_from, reply_text))
        formatted_message == Format(cfg.user_format_syntax, syntax)
        formatted_reply == Format(cfg.user_reply_format_syntax, reply_syntax)
        n == Len(entries)
    IN  IF ~m.reply /\ msg_text # <<>>
        THEN IF \E i \in 1..n : entries[i].text = formatted_message
             THEN entries
             ELSE IF n > 0 /\ entries[n].key.kind = "Message" /\ EndsWith(entries[n].text, msg_name)
                  THEN [entries EXCEPT ![n].text = @ \o <<NL>> \o formatted_message]
                  ELSE Append(entries, [key |-> MessageKey(n + 1), text |-> formatted_message])
        ELSE IF m.reply
        THEN IF \E i \in 1..n : entries[i].key = ReplyKey
             THEN [i \in 1..n |-> IF entries[i].key = ReplyKey
                                  THEN [key |-> ReplyKey, text |-> formatted_reply]
                                  ELSE entries[i]]
             ELSE Append(entries, [key |-> ReplyKey, text |-> formatted_reply])
        ELSE entries

\* capture_message: the file after the call.  Nothing is written for a webhook
\* message, for a channel that is not in the session cache and for a channel
\* without session data; otherwise the whole file is written back, with the
\* channel's key created.
capture_message(mc, sc, cfg, m) ==
    IF m.webhook THEN mc
    ELSE IF ~is_channel_active(sc, m.channel) THEN mc
    ELSE IF get_session_data(sc, m.channel) = NoneVal THEN mc
    ELSE [mc EXCEPT ![m.channel] =
            [present |-> TRUE, entries |-> CaptureEntries(@.entries, cfg, m)]]

\* A message is captured (func.capture_message is synchronous: it reads and
\* writes the file without suspending).
Capture(m) ==
    /\ n_captures < MaxCaptures
    /\ n_captures' = n_captures + 1
    /\ messages_cache' = capture_message(messages_cache, session_cache, cap_config, m)
    /\ last_msg' = m
    /\ UNCHANGED cap_config
    /\ UNCHANGED nonCapVars

InitCapture ==
    /\ messages_cache = [k \in Keys |-> NoCache]
    /\ cap_config \in Configs
    /\ n_captures = 0
    /\ last_msg = NoMsg

NextCapture == \E m \in Msgs : Capture(m)

(***************************************************************************)
(* Response queue and cai_response: cai.py                                 *)
(***************************************************************************)
\* The persona the model follows: the only AI of channel c1.
Persona == "p1"
PersonaChannel == "c1"

\* session["chat_id"] is None: no conversation yet.  The n-th conversation
\* create_chat makes for the persona has the id n.
NoChat == 0

\* setup() of commands/webhook.py and of commands/bot.py each start one
\* process_response_queue task; app.py loads both extensions.
Workers == {"w1", "w2"}

\* the generation requests explored (each is submitted at most once)
Requests == {"r1", "r2"}

\* api_semaphore = asyncio.Semaphore(3)
ApiPermits == 3
\* retry_with_backoff(try_generate, max_retries=3, base_delay=2)
MaxRetries == 3
\* after a new chat was created: retry_with_backoff(try_generate, max_retries=2, base_delay=2)
RetriesAfterNewChat == 2

\* The fixed texts of cai_response.
MissingConfigMsg == <<"Error: Missing chat configuration. Please check the logs.">>
NoDataMsg == <<"I couldn't process your message. Please try again.">>
EmptyReplyMsg == <<"I'm sorry, but I couldn't generate a response. Please try again.">>
TroubleMsg == <<"I'm having trouble connecting. Please try again later.">>
ErrorMsg == <<"An error occurred while generating a response. Please try again later.">>

\* config.yml, MessageFormatting.remove_IA_text_from: ['\*[^*]*\*', '\[[^\]]*\]', '"']
QUOTE == "\""
remove_IA_text_from == {ACT, QUOTE}

\* cai_response, finally: every pattern is removed from AI_response and the
\* result is stripped.
CleanResponse(t) == re_sub_all(remove_IA_text_from, t)

\* `not AI_response or AI_response.isspace()`
IsBlank(t) == \A i \in 1..Len(t) : t[i] \in {WS, NL}

\* What the upstream answers to the n-th send_message of request r: a reply of
\* one of three shapes, or an exception.
AttemptTok == <<"#1", "#2", "#3", "#4", "#5">>
ReplyKinds == {"text", "decorated", "blank", "action", "emoji", "lines"}
Failures == {"timeout", "closed", "error"}
\* the outcomes explored in SpecDispatch
Outcomes == {"text", "decorated", "blank"} \cup Failures
ReplyText(r, n, kind) ==
    CASE kind = "text" -> <<r, AttemptTok[n]>>
      [] kind = "decorated" -> <<QUOTE, r, AttemptTok[n], QUOTE, WS, ACT>>
      [] kind = "action" -> <<ACT>>
      [] kind = "emoji" -> <<EMOJI, WS, EMOJI>>
      [] kind = "lines" -> <<r, NL, WS, NL, AttemptTok[n]>>
      [] OTHER -> <<WS>>

\* retry_with_backoff catches aiohttp.ClientError, asyncio.TimeoutError and
\* exceptions.SessionClosedError; anything else leaves it at once.
Retryable(outcome) == outcome \in {"timeout", "closed"}

\* format_to_send: the texts of the channel's entries joined by "\n"; "" when
\* the snapshot has nothing for the channel.
RECURSIVE JoinLines(_)
JoinLines(entries) ==
    IF entries = <<>> THEN <<>>
    ELSE IF Len(entries) = 1 THEN entries[1].text
    ELSE entries[1].text \o <<NL>> \o JoinLines(Tail(entries))
format_to_send(cache_data, k) ==
    IF cache_data[k].present THEN JoinLines(cache_data[k].entries) ELSE <<>>

NoRequest == [id |-> "none", channel |-> "none", ids_ok |-> FALSE]
\* `seen` is history: the number of messages captured when the worker read
\* its snapshot.  `cache_data` is what remove_sent_messages_from_cache read.
IdleWorker == [pc |-> "idle", req |-> NoRequest, messages |-> <<>>, attempt |-> 0,
               phase |-> 1, response |-> <<>>, seen |-> 0, cache_data |-> <<>>,
               delivered |-> FALSE]

\* queue_response: the request is put on the (unbounded) queue.  chat_id and
\* character_id are what the session held; either may be missing.
queue_response(r, k, ids_ok) ==
    /\ submitted' = submitted \cup {r}
    /\ response_queue' = Append(response_queue, [id |-> r, channel |-> k, ids_ok |-> ids_ok])

\* a caller queues request r
QueueResponse(r, k, ids_ok) ==
    /\ r \notin submitted
    /\ queue_response(r, k, ids_ok)
    /\ UNCHANGED <<api_permits, AI_response, worker, sends, cb_log>>
    /\ UNCHANGED nonDispVars

\* response_queue.get()
ResponseQueuePeek(q) == <<Head(q), q>>
ResponseQueueGetLast(q) == <<q[Len(q)], SubSeq(q, 1, Len(q) - 1)>>
ResponseQueueGet(q) == <<Head(q), Tail(q)>>

\* process_response_queue, line 340: a worker takes the oldest request and
\* suspends in asyncio.to_thread(read_json, "messages_cache.json").
WGet(w) ==
    /\ worker[w].pc = "idle"
    /\ response_queue # <<>>
    /\ worker' = [worker EXCEPT ![w] = [IdleWorker EXCEPT !.pc = "read",
                                          !.req = ResponseQueueGet(response_queue)[1]]]
    /\ response_queue' = ResponseQueueGet(response_queue)[2]
    /\ UNCHANGED <<submitted, api_permits, AI_response, sends, cb_log>>
    /\ UNCHANGED nonDispVars

\* line 354: the thread reads the message cache file.
WRead(w) ==
    /\ worker[w].pc = "read"
    /\ worker' = [worker EXCEPT ![w].pc = "start",
                                ![w].messages = format_to_send(messages_cache, worker[w].req.channel),
                                ![w].seen = n_captures]
    /\ UNCHANGED <<response_queue, submitted, api_permits, AI_response, sends, cb_log>>
    /\ UNCHANGED nonDispVars

\* cai_response, lines 238-249: without chat_id or character_id the error text
\* is returned at once; otherwise a permit of api_semaphore is taken and the
\* task suspends in get_client.
WStart(w) ==
    /\ worker[w].pc = "start"
    /\ IF ~worker[w].req.ids_ok
       THEN /\ worker' = [worker EXCEPT ![w].pc = "callback", ![w].response = MissingConfigMsg]
            /\ UNCHANGED api_permits
       ELSE /\ api_permits > 0
            /\ api_permits' = api_permits - 1
            /\ worker' = [worker EXCEPT ![w].pc = "get_client"]
    /\ UNCHANGED <<response_queue, submitted, AI_response, sends, cb_log>>
    /\ UNCHANGED nonDispVars

FinishHolding(w, text) ==
    /\ AI_response' = CleanResponse(text)
    /\ api_permits' = api_permits
    /\ worker' = [worker EXCEPT ![w].pc = "closing"]

\* cai_response leaves its try blocks with AI_response set to `text`: the
\* permit is released, the finally block cleans the global AI_response and the
\* task suspends in client.close_session().
Finish(w, text) ==
    /\ AI_response' = CleanResponse(text)
    /\ api_permits' = api_permits + 1
    /\ worker' = [worker EXCEPT ![w].pc = "closing"]

\* get_client returns or raises.  When it raises, client is None: the generic
\* handler sets the error text, the finally block cleans it and, with nothing
\* to close, cai_response returns AI_response without suspending.  When it
\* returns, the first try_generate of retry_with_backoff runs: with nothing to
\* send it sets the no-data text and returns, otherwise it suspends in
\* client.chat.send_message.
WClient(w, ok) ==
    /\ worker[w].pc = "get_client"
    /\ IF ~ok
       THEN /\ AI_response' = CleanResponse(ErrorMsg)
            /\ api_permits' = api_permits + 1
            /\ worker' = [worker EXCEPT ![w].pc = "callback",
                                        ![w].response = CleanResponse(ErrorMsg)]
       ELSE IF worker[w].messages = <<>>
            THEN Finish(w, NoDataMsg)
            ELSE /\ worker' = [worker EXCEPT ![w].pc = "send"]
                 /\ UNCHANGED <<AI_response, api_permits>>
    /\ UNCHANGED <<response_queue, submitted, sends, cb_log>>
    /\ UNCHANGED nonDispVars

\* The number of try_generate calls retry_with_backoff makes at most.
RetryBudget(phase) == IF phase = 1 THEN MaxRetries ELSE RetriesAfterNewChat

\* client.chat.send_message returns or raises (try_generate, lines 268-281,
\* and what follows it in retry_with_backoff and cai_response).
WSend(w, outcome) ==
    LET r == worker[w].req.id
        n == Len(sends[r]) + 1
        text == ReplyText(r, n, outcome)
        last == worker[w].attempt = RetryBudget(worker[w].phase) - 1
    IN
    /\ worker[w].pc = "send"
    /\ sends' = [sends EXCEPT ![r] = Append(@, outcome)]
    /\ IF outcome \in ReplyKinds
       THEN \* lines 273, 285-287: the empty check is made in the first try block only
            Finish(w, IF worker[w].phase = 1 /\ IsBlank(text) THEN EmptyReplyMsg ELSE text)
       ELSE IF Retryable(outcome) /\ ~last
       THEN \* retry_with_backoff sleeps base_delay * 2 ** attempt, holding the permit
            /\ worker' = [worker EXCEPT ![w].pc = "backoff"]
            /\ UNCHANGED <<AI_response, api_permits>>
       ELSE IF worker[w].phase = 1 /\ outcome = "closed"
       THEN \* lines 289-293: SessionClosedError leaves the first `async with`,
            \* which releases the permit; the handler enters the second one
            /\ worker' = [worker EXCEPT ![w].pc = "new_chat"]
            /\ api_permits' = api_permits + 1
            /\ UNCHANGED AI_response
       ELSE Finish(w, IF worker[w].phase = 1 THEN ErrorMsg ELSE TroubleMsg)
    /\ UNCHANGED <<response_queue, submitted, cb_log>>
    /\ UNCHANGED nonDispVars

\* retry_with_backoff: the sleep is over, try_generate runs again.
WBackoff(w) ==
    /\ worker[w].pc = "backoff"
    /\ worker' = [worker EXCEPT ![w].pc = "send", ![w].attempt = @ + 1]
    /\ UNCHANGED <<response_queue, submitted, api_permits, AI_response, sends, cb_log>>
    /\ UNCHANGED nonDispVars

\* line 293: the permit is taken again; the task suspends in create_chat.
WNewChat(w) ==
    /\ worker[w].pc = "new_chat"
    /\ api_permits > 0
    /\ api_permits' = api_permits - 1
    /\ worker' = [worker EXCEPT ![w].pc = "create_chat"]
    /\ UNCHANGED <<response_queue, submitted, AI_response, sends, cb_log>>
    /\ UNCHANGED nonDispVars

\* lines 296-311: client.chat.create_chat returns or raises.  When it
\* returns, the local chat_id is the new id, and
\*     session = utils.get_session_data(server_id, channel_id)
\*     if session: session["chat_id"] = chat_id
\* writes it: get_session_data returns the channel's dict of AIs, so the id
\* becomes the value of a key "chat_id" next to the AI names, and chat_id of
\* the AI's own session stays as it was.  retry_with_backoff then starts again
\* with max_retries=2.
WCreateChat(w, ok) ==
    LET own == worker[w].req.channel = PersonaChannel
    IN
    /\ worker[w].pc = "create_chat"
    /\ IF ok
       THEN /\ worker' = [worker EXCEPT ![w].pc = "send", ![w].attempt = 0, ![w].phase = 2]
            /\ created' = IF own THEN created + 1 ELSE created
            /\ session' = IF own /\ session.exists
                          THEN [session EXCEPT !.channel_chat_id = created + 1]
                          ELSE session
            /\ UNCHANGED <<AI_response, api_permits>>
       ELSE /\ Finish(w, TroubleMsg)
            /\ UNCHANGED <<created, session>>
    /\ UNCHANGED <<response_queue, submitted, sends, cb_log>>
    /\ UNCHANGED <<now, gen_config, processing_channels, monitor, tasks, remover,
                   last_activity, clear_log, chat_cmd>>
    /\ UNCHANGED <<storeVars, capVars>>
    /\ UNCHANGED lockVars

\* lines 324-329: close_session is over; cai_response returns the global
\* AI_response, and the worker awaits callback(response).
WClose(w) ==
    /\ worker[w].pc = "closing"
    /\ worker' = [worker EXCEPT ![w].pc = "callback", ![w].response = AI_response]
    /\ UNCHANGED <<response_queue, submitted, api_permits, AI_response, sends, cb_log>>
    /\ UNCHANGED nonDispVars

\* lines 365, 374-380: the callback has run with the response; task_done();
\* the worker sleeps 0.5 s.
WCallback(w) ==
    /\ worker[w].pc = "callback"
    /\ cb_log' = [cb_log EXCEPT ![worker[w].req.id] = Append(@, worker[w].response)]
    /\ worker' = [worker EXCEPT ![w].pc = "pause"]
    /\ UNCHANGED <<response_queue, submitted, api_permits, AI_response, sends>>
    /\ UNCHANGED nonDispVars

\* the sleep is over: back to response_queue.get()
WPause(w) ==
    /\ worker[w].pc = "pause"
    /\ worker' = [worker EXCEPT ![w] = IdleWorker]
    /\ UNCHANGED <<response_queue, submitted, api_permits, AI_response, sends, cb_log>>
    /\ UNCHANGED nonDispVars

InitDispatch ==
    /\ response_queue = <<>>
    /\ submitted = {}
    /\ api_permits = ApiPermits
    /\ AI_response = <<>>
    /\ worker = [w \in Workers |-> IdleWorker]
    /\ sends = [r \in Requests |-> <<>>]
    /\ cb_log = [r \in Requests |-> <<>>]

NextDispatch ==
    \/ \E r \in Requests, k \in Keys, ids_ok \in BOOLEAN : QueueResponse(r, k, ids_ok)
    \/ \E w \in Workers : WGet(w)
    \/ \E w \in Workers : WRead(w)
    \/ \E w \in Workers : WStart(w)
    \/ \E w \in Workers, ok \in BOOLEAN : WClient(w, ok)
    \/ \E w \in Workers, outcome \in Outcomes : WSend(w, outcome)
    \/ \E w \in Workers : WBackoff(w)
    \/ \E w \in Workers : WNewChat(w)
    \/ \E w \in Workers, ok \in BOOLEAN : WCreateChat(w, ok)
    \/ \E w \in Workers : WClose(w)
    \/ \E w \in Workers : WCallback(w)
    \/ \E w \in Workers : WPause(w)

(***************************************************************************)
(* One persona, from captured message to delivered reply:                  *)
(* utils/AI_utils.py, with handle_response and remove_ai                   *)
(*                                                                         *)
(* The persona is the only AI of channel c1.  Handlers reach its session   *)
(* dict through get_session_data and change it in place, so every holder   *)
(* of the dict sees the same fields; `exists` tells whether the channel    *)
(* data in session_cache still holds the persona.  The queue behind        *)
(* update_session_data is the subject of SpecStore and is left out here.   *)
(***************************************************************************)
\* `cache_count >= 5` in _monitor_ai_inactivity
SizeTrigger == 5

\* The values of delay_for_generation and of cache_count_threshold that
\* /config may have stored in the persona's config.
Delays == {2}
Thresholds == {3, 6}

\* the text of the n-th message sent to the channel
MsgTok == <<"m1", "m2", "m3", "m4", "m5", "m6", "m7">>

\* the message texts found in a channel's cache entries
CachedToks(mc) ==
    {MsgTok[n] : n \in {j \in 1..Len(MsgTok) :
        \E i \in 1..Len(mc[PersonaChannel].entries) :
            \E x \in 1..Len(mc[PersonaChannel].entries[i].text) :
                mc[PersonaChannel].entries[i].text[x] = MsgTok[j]}}

\* `ai_key in self.processing_channels`
being_processed_never(p) == FALSE
being_processed(p) == p \in processing_channels

\* time.time() advances.
Tick ==
    /\ now < MaxTime
    /\ now' = now + 1
    /\ UNCHANGED <<session, gen_config, processing_channels, monitor, tasks, remover,
                   last_activity, clear_log>>
    /\ UNCHANGED <<storeVars, capVars, dispVars>>
    /\ UNCHANGED chatVars

\* on_typing -> time_typing: with channel data, last_message_time of every AI
\* of the channel is set to the current time.
Typing ==
    /\ session.exists
    /\ session' = [session EXCEPT !.last_message_time = now]
    /\ last_activity' = now
    /\ UNCHANGED <<now, gen_config, processing_channels, monitor, tasks, remover, clear_log>>
    /\ UNCHANGED <<storeVars, capVars, dispVars>>
    /\ UNCHANGED chatVars

\* read_channel_messages, lines 136-144: the author is in muted_users of an
\* AI of the channel
user_muted_never(author) == FALSE
user_muted(author) == author.username \in session.muted_users

\* monitor_inactivity, line 439: active_tasks holds a monitor task of the
\* persona and it is not done.  `monitor` is the task active_tasks holds
\* ("off": none yet; "stopped": done); a task created in its place while it
\* is alive leaves it running unreferenced, which monitor.others counts.
monitor_running_never(m) == FALSE
monitor_running(m) == m.pc \notin {"off", "stopped"}

\* on_message: read_channel_messages / _process_channel_message capture the
\* message and set last_message_time and awaiting_response of every AI of the
\* channel, unless the author is muted; monitor_inactivity then starts the
\* persona's monitor unless one is running.  Without channel data both return
\* at once.  `limit` bounds the messages of a run, which n_captures counts.
OnMessage(author, limit) ==
    LET m == [channel |-> PersonaChannel, author |-> author,
              content |-> <<MsgTok[n_captures + 1]>>, webhook |-> FALSE, reply |-> FALSE]
    IN
    /\ n_captures < limit
    /\ session.exists
    /\ n_captures' = n_captures + 1
    /\ IF user_muted(author)
       THEN UNCHANGED <<messages_cache, last_msg, session, last_activity>>
       ELSE /\ messages_cache' = capture_message(messages_cache, session_cache, cap_config, m)
            /\ last_msg' = m
            /\ session' = [session EXCEPT !.last_message_time = now,
                                          !.awaiting_response = FALSE]
            /\ last_activity' = now
    /\ monitor' = IF monitor_running(monitor) THEN monitor
                  ELSE [monitor EXCEPT !.pc = "sleep",
                                       !.others = @ + IF monitor.pc \in {"off", "stopped"}
                                                      THEN 0 ELSE 1]
    /\ UNCHANGED <<now, gen_config, processing_channels, tasks, remover, clear_log>>
    /\ UNCHANGED <<storeVars, cap_config, dispVars>>
    /\ UNCHANGED chatVars

\* _monitor_ai_inactivity without the check of lines 469-473: the monitor of a
\* persona that is gone goes on to read the cache.
MonPollOn ==
    /\ monitor.pc = "sleep"
    /\ \A i \in 1..Len(tasks) : tasks[i].pc # "start"
    /\ session.exists => ~session.awaiting_response /\ Persona \notin processing_channels
    /\ monitor' = [monitor EXCEPT !.pc = "read"]
    /\ UNCHANGED <<now, session, gen_config, processing_channels, tasks, remover,
                   last_activity, clear_log>>
    /\ UNCHANGED <<storeVars, capVars, dispVars>>
    /\ UNCHANGED chatVars

\* _monitor_ai_inactivity, lines 463-487: the 0.5 s sleep is over.  The loop
\* ends when the persona is gone, goes back to sleep when a response is
\* awaited or the persona is being processed, and otherwise suspends in
\* asyncio.to_thread(read_json, "messages_cache.json").  A task created in the
\* previous round has run its first step by now: it was ready before the
\* sleep began.
MonPoll ==
    /\ monitor.pc = "sleep"
    /\ \A i \in 1..Len(tasks) : tasks[i].pc # "start"
    /\ IF ~session.exists
       THEN monitor' = [monitor EXCEPT !.pc = "stopped"]
       ELSE /\ ~session.awaiting_response
            /\ ~being_processed(Persona)
            /\ monitor' = [monitor EXCEPT !.pc = "read"]
    /\ UNCHANGED <<now, session, gen_config, processing_channels, tasks, remover,
                   last_activity, clear_log>>
    /\ UNCHANGED <<storeVars, capVars, dispVars>>
    /\ UNCHANGED chatVars

\* line 487, in the thread: the cache file is read.
MonRead ==
    /\ monitor.pc = "read"
    /\ monitor' = [monitor EXCEPT !.pc = "decide",
                                  !.cache_count = Len(messages_cache[PersonaChannel].entries)]
    /\ UNCHANGED <<now, session, gen_config, processing_channels, tasks, remover,
                   last_activity, clear_log>>
    /\ UNCHANGED <<storeVars, capVars, dispVars>>
    /\ UNCHANGED chatVars

\* line 495
ShouldTriggerEarly(time_since_last, delay, cache_count) ==
    (time_since_last + 1 >= delay \/ cache_count >= SizeTrigger) /\ cache_count > 0
ShouldTrigger(time_since_last, delay, cache_count) ==
    (time_since_last >= delay \/ cache_count >= SizeTrigger) /\ cache_count > 0

\* lines 490-513: the monitor resumes and evaluates its trigger.  When it
\* fires, a response task of the persona that is not done is cancelled and
\* awaited (CancelledError is not an Exception: the task ends where it was
\* suspended, and nothing of its handlers runs), and a new AI_send_message
\* task is created.
MonDecide ==
    LET time_since_last == now - session.last_message_time
        delay == gen_config.delay_for_generation
        fire == ShouldTrigger(time_since_last, delay, monitor.cache_count)
        n == Len(tasks)
        cancelled == IF n > 0 /\ tasks[n].pc # "done"
                     THEN [tasks EXCEPT ![n].pc = "done"] ELSE tasks
    IN
    /\ monitor.pc = "decide"
    /\ fire => n < MaxTasks
    /\ tasks' = IF fire THEN Append(cancelled, [pc |-> "start", cache_empty |-> FALSE])
                ELSE tasks
    /\ monitor' = [monitor EXCEPT !.pc = "sleep"]
    /\ UNCHANGED <<now, session, gen_config, processing_channels, remover,
                   last_activity, clear_log>>
    /\ UNCHANGED <<storeVars, capVars, dispVars>>
    /\ UNCHANGED chatVars

\* the request id the next queue_response call is told apart by
NextRequest == IF "r1" \notin submitted THEN "r1" ELSE "r2"

\* AI_send_message, lines 245-281: the first step of a response task.  A
\* persona that is being processed is skipped; otherwise it is marked.  Without
\* session data the function returns.  A session without chat_id makes the
\* task await cai.new_chat_id; with a chat_id awaiting_response and
\* last_message_time are set and the task suspends in
\* asyncio.to_thread(read_json, "messages_cache.json").
SendStart(i) ==
    /\ tasks[i].pc = "start"
    /\ IF being_processed(Persona)
       THEN /\ tasks' = [tasks EXCEPT ![i].pc = "done"]
            /\ UNCHANGED <<processing_channels, session>>
       ELSE /\ processing_channels' = processing_channels \cup {Persona}
            /\ IF ~session.exists
               THEN /\ tasks' = [tasks EXCEPT ![i].pc = "done"]
                    /\ UNCHANGED session
               ELSE IF session.chat_id = NoChat
               THEN /\ tasks' = [tasks EXCEPT ![i].pc = "new_chat"]
                    /\ UNCHANGED session
               ELSE /\ session' = [session EXCEPT !.awaiting_response = TRUE,
                                                  !.last_message_time = now]
                    /\ tasks' = [tasks EXCEPT ![i].pc = "read"]
    /\ UNCHANGED <<now, gen_config, monitor, remover, last_activity, clear_log>>
    /\ UNCHANGED <<storeVars, capVars, dispVars>>
    /\ UNCHANGED chatVars

\* cai.new_chat_id, lines 115-123, called by the task: the session has a
\* character_id and no chat_id; `async with api_semaphore` is entered and the
\* task suspends in get_client and create_chat.
SendChatAcquire(i) ==
    /\ tasks[i].pc = "new_chat"
    /\ api_permits > 0
    /\ api_permits' = api_permits - 1
    /\ tasks' = [tasks EXCEPT ![i].pc = "create_chat"]
    /\ UNCHANGED <<response_queue, submitted, AI_response, worker, sends, cb_log>>
    /\ UNCHANGED <<storeVars, capVars, pipeVarsButTasks, chatVars>>

\* cai.new_chat_id, lines 125-139, and AI_send_message, lines 271-278:
\* create_chat returns and the new id is put into the session, or get_client
\* or create_chat raises and new_chat_id returns (None, None); the permit is
\* released.  AI_send_message assigns what new_chat_id returned to
\* session["chat_id"], stores the session, sets awaiting_response and
\* last_message_time and suspends in asyncio.to_thread(read_json, ...).
SendChatDone(i, ok) ==
    /\ tasks[i].pc = "create_chat"
    /\ api_permits' = api_permits + 1
    /\ created' = IF ok THEN created + 1 ELSE created
    /\ session' = [session EXCEPT !.chat_id = IF ok THEN created + 1 ELSE NoChat,
                                  !.exists = TRUE,
                                  !.awaiting_response = TRUE,
                                  !.last_message_time = now]
    /\ tasks' = [tasks EXCEPT ![i].pc = "read"]
    /\ UNCHANGED <<now, gen_config, processing_channels, monitor, remover, last_activity,
                   clear_log, chat_cmd>>
    /\ UNCHANGED <<response_queue, submitted, AI_response, worker, sends, cb_log>>
    /\ UNCHANGED <<storeVars, capVars>>
    /\ UNCHANGED lockVars

\* The commands in initialize_session_messages: /setup of the persona, and
\* /setup of an AI of another channel (whose session is not modelled).
ChatCommands == {"setup", "setup_other"}

\* /setup, commands/ai_manager.py lines 212-216: the new session (without
\* chat_id) is in the channel data and the command awaits
\* initialize_session_messages, which calls new_chat_id: `async with
\* api_semaphore` is entered.
SetupChatAcquire(c) ==
    /\ chat_cmd[c] = "new_chat"
    /\ api_permits > 0
    /\ api_permits' = api_permits - 1
    /\ chat_cmd' = [chat_cmd EXCEPT ![c] = "create_chat"]
    /\ UNCHANGED <<response_queue, submitted, AI_response, worker, sends, cb_log>>
    /\ UNCHANGED <<storeVars, capVars, pipeVars, created>>
    /\ UNCHANGED lockVars

\* cai.new_chat_id, lines 125-139, called by /setup: create_chat returns and
\* the new id is put into the session, or it raises; the permit is released.
SetupChatDone(c, ok) ==
    /\ chat_cmd[c] = "create_chat"
    /\ api_permits' = api_permits + 1
    /\ created' = IF ok /\ c = "setup" THEN created + 1 ELSE created
    /\ session' = IF ok /\ c = "setup" THEN [session EXCEPT !.chat_id = created + 1]
                  ELSE session
    /\ chat_cmd' = [chat_cmd EXCEPT ![c] = "done"]
    /\ UNCHANGED <<now, gen_config, processing_channels, monitor, tasks, remover,
                   last_activity, clear_log>>
    /\ UNCHANGED <<response_queue, submitted, AI_response, worker, sends, cb_log>>
    /\ UNCHANGED <<storeVars, capVars>>
    /\ UNCHANGED lockVars

\* line 281, in the thread: the cache file is read.
SendRead(i) ==
    /\ tasks[i].pc = "read"
    /\ tasks' = [tasks EXCEPT ![i].pc = "resume",
                              ![i].cache_empty = (messages_cache[PersonaChannel].entries = <<>>)]
    /\ UNCHANGED <<now, session, gen_config, processing_channels, monitor, remover,
                   last_activity, clear_log>>
    /\ UNCHANGED <<storeVars, capVars, dispVars>>
    /\ UNCHANGED chatVars

\* lines 284-295: with nothing cached awaiting_response is reset, the session
\* is stored back into the channel data (channel_data[ai_name] = session;
\* update_session_data), the mark is dropped and the task ends.  Otherwise the
\* task sleeps 3 s.
SendResume(i) ==
    /\ tasks[i].pc = "resume"
    /\ IF tasks[i].cache_empty
       THEN /\ session' = [session EXCEPT !.awaiting_response = FALSE, !.exists = TRUE]
            /\ processing_channels' = processing_channels \ {Persona}
            /\ tasks' = [tasks EXCEPT ![i].pc = "done"]
       ELSE /\ tasks' = [tasks EXCEPT ![i].pc = "sleep3"]
            /\ UNCHANGED <<session, processing_channels>>
    /\ UNCHANGED <<now, gen_config, monitor, remover, last_activity, clear_log>>
    /\ UNCHANGED <<storeVars, capVars, dispVars>>
    /\ UNCHANGED chatVars

\* lines 299-377: after the sleep, last_message_time of the session found
\* through get_session_data is compared with that of `session`, the dict the
\* task holds: they are one dict.  Then the task suspends entering
\* message.channel.typing().
SendRecheck(i) ==
    LET current_session == session
    IN
    /\ tasks[i].pc = "sleep3"
    /\ IF session.exists /\ current_session.last_message_time > session.last_message_time
       THEN /\ processing_channels' = processing_channels \ {Persona}
            /\ tasks' = [tasks EXCEPT ![i].pc = "done"]
       ELSE /\ tasks' = [tasks EXCEPT ![i].pc = "typing"]
            /\ UNCHANGED processing_channels
    /\ UNCHANGED <<now, session, gen_config, monitor, remover, last_activity,
                   clear_log>>
    /\ UNCHANGED <<storeVars, capVars, dispVars>>
    /\ UNCHANGED chatVars

\* lines 377-408: typing() is entered and the request is queued (the queue is
\* unbounded: put() does not suspend and the 10 s timeout cannot expire), or
\* entering typing() raised and the handler of line 398 drops the mark and,
\* with session data, resets awaiting_response.
SendQueue(i, ok) ==
    /\ tasks[i].pc = "typing"
    /\ tasks' = [tasks EXCEPT ![i].pc = "done"]
    /\ IF ok
       THEN /\ submitted # Requests
            /\ queue_response(NextRequest, PersonaChannel, session.chat_id # NoChat)
            /\ UNCHANGED <<processing_channels, session>>
       ELSE /\ processing_channels' = processing_channels \ {Persona}
            /\ session' = IF session.exists
                          THEN [session EXCEPT !.awaiting_response = FALSE] ELSE session
            /\ UNCHANGED <<submitted, response_queue>>
    /\ UNCHANGED <<now, gen_config, monitor, remover, last_activity, clear_log>>
    /\ UNCHANGED <<api_permits, AI_response, worker, sends, cb_log>>
    /\ UNCHANGED <<storeVars, capVars>>
    /\ UNCHANGED chatVars

\* who sends the n-th message of the channel: in SpecPipeline one user writes,
\* in SpecMonitor two users take turns (so that every message is a new entry)
Ann == [username |-> "ann", name |-> "Ann"]
Bob == [username |-> "bob", name |-> "Bob"]
Speaker(n) == IF n % 2 = 1 THEN Ann ELSE Bob

(***************************************************************************)
(* The JSON files: func.read_json and func.write_json under session_lock   *)
(***************************************************************************)
\* The threads that call read_json and write_json: the event loop
\* (capture_message) and the threads of asyncio.to_thread (the workers, the
\* monitor, the clears, the writer task).
Callers == {"t1", "t2", "t3"}
Unlocked == "nobody"
IdleCall == [pc |-> "idle", op |-> "none", nested |-> FALSE, result |-> "none"]

\* what open() and json.load find in read_json: the content, no file
\* (FileNotFoundError), a file that is no JSON (JSONDecodeError), or another
\* exception
ReadOutcomes == {"data", "missing", "undecodable", "error"}

\* a thread calls read_json (op = "read") or write_json (op = "write") and
\* comes to `with session_lock:`
FileCall(c, op) ==
    /\ file_call[c].pc = "idle"
    /\ file_call' = [file_call EXCEPT ![c] = [pc |-> "acquire", op |-> op,
                                              nested |-> FALSE, result |-> "none"]]
    /\ UNCHANGED <<session_lock, channel_locks, capturer, chat_cmd, created>>
    /\ UNCHANGED <<storeVars, capVars, dispVars, pipeVars>>

\* `with session_lock:` of read_json (line 384) and of write_json (line 411):
\* threading.Lock.acquire blocks until the lock is free, whoever holds it; the
\* lock is not reentrant.
FileAcquire(c) ==
    /\ file_call[c].pc = "acquire"
    /\ session_lock = Unlocked
    /\ session_lock' = c
    /\ file_call' = [file_call EXCEPT ![c].pc = "locked"]
    /\ UNCHANGED <<channel_locks, capturer, chat_cmd, created>>
    /\ UNCHANGED <<storeVars, capVars, dispVars, pipeVars>>

\* read_json, lines 385-400, holding the lock: the content is returned, and
\* leaving the `with` block releases the lock; or the handler of
\* FileNotFoundError / JSONDecodeError calls write_json(file_path, {}), still
\* inside the `with` block; or the generic handler returns None.
ReadJson(c, found) ==
    /\ file_call[c].pc = "locked"
    /\ file_call[c].op = "read"
    /\ ~file_call[c].nested
    /\ IF found \in {"missing", "undecodable"}
       THEN /\ file_call' = [file_call EXCEPT ![c].pc = "acquire", ![c].nested = TRUE]
            /\ UNCHANGED session_lock
       ELSE /\ file_call' = [file_call EXCEPT ![c].pc = "returned",
                                ![c].result = IF found = "data" THEN "data" ELSE "None"]
            /\ session_lock' = Unlocked
    /\ UNCHANGED <<channel_locks, capturer, chat_cmd, created>>
    /\ UNCHANGED <<storeVars, capVars, dispVars, pipeVars>>

\* write_json, lines 411-416, holding the lock: the file is written (or the
\* failure is logged) and leaving the `with` block releases the lock.  Called
\* by read_json, it returns to the handler, which returns {}.
WriteJson(c) ==
    /\ file_call[c].pc = "locked"
    /\ file_call[c].op = "write" \/ file_call[c].nested
    /\ file_call' = [file_call EXCEPT ![c].pc = "returned",
                        ![c].result = IF file_call[c].nested THEN "empty" ELSE "written"]
    /\ session_lock' = Unlocked
    /\ UNCHANGED <<channel_locks, capturer, chat_cmd, created>>
    /\ UNCHANGED <<storeVars, capVars, dispVars, pipeVars>>

\* the caller goes on with what the call returned
FileReturn(c) ==
    /\ file_call[c].pc = "returned"
    /\ file_call' = [file_call EXCEPT ![c] = IdleCall]
    /\ UNCHANGED <<session_lock, channel_locks, capturer, chat_cmd, created>>
    /\ UNCHANGED <<storeVars, capVars, dispVars, pipeVars>>

NextFile ==
    \/ \E c \in Callers, op \in {"read", "write"} : FileCall(c, op)
    \/ \E c \in Callers : FileAcquire(c)
    \/ \E c \in Callers, found \in ReadOutcomes : ReadJson(c, found)
    \/ \E c \in Callers : WriteJson(c)
    \/ \E c \in Callers : FileReturn(c)

(***************************************************************************)
(* The channel lock: discord_AI_bot._process_channel_message               *)
(***************************************************************************)
\* The _process_channel_message calls explored: read_channel_messages starts
\* one per channel of the server that has session data, for every message.
Handlers == {"h1", "h2", "h3"}
HandlerNo == [h \in Handlers |-> CASE h = "h1" -> 1 [] h = "h2" -> 2 [] OTHER -> 3]

\* asyncio.Lock: _locked, and _waiters, the futures of the acquire() calls
\* that wait, oldest first; woken says that release() has set the result of
\* the first waiter's future and that waiter has not run yet.
FreeLock == [locked |-> FALSE, waiters |-> <<>>, woken |-> FALSE]

IdleCapturer == [pc |-> "idle", channel |-> PersonaChannel, reply |-> FALSE, releases |-> 0]

IdleLocks ==
    /\ channel_locks = [k \in Keys |-> FreeLock]
    /\ capturer = [h \in Handlers |-> IdleCapturer]
    /\ session_lock = Unlocked
    /\ file_call = [c \in Callers |-> IdleCall]

\* Lock.acquire, the fast path: the lock is free and nobody waits for it.
lock_free_always(l) == TRUE
lock_free(l) == ~l.locked /\ l.waiters = <<>>

\* Lock.release: _locked is reset and the first waiter, if any, is woken up.
lock_release(l) == [l EXCEPT !.locked = FALSE, !.woken = (l.waiters # <<>>)]

\* the sequence q without h
RECURSIVE Without(_, _)
Without(q, h) ==
    IF q = <<>> THEN <<>>
    ELSE IF Head(q) = h THEN Without(Tail(q), h)
    ELSE <<Head(q)>> \o Without(Tail(q), h)

\* The way out of the locked section, lines 224-233: the finally block
\* releases the lock; when the section raised, the handler of line 228 then
\* releases once more if it finds the lock locked.
LockAfter(l, raised) ==
    IF raised /\ lock_release(l).locked THEN lock_release(lock_release(l)) ELSE lock_release(l)
ReleasesAfter(l, raised) ==
    IF raised /\ lock_release(l).locked THEN 2 ELSE 1

\* the message a call handles: it was posted in the persona's channel
HandlerMsg(h) ==
    [channel |-> PersonaChannel, author |-> Speaker(HandlerNo[h]),
     content |-> <<MsgTok[HandlerNo[h]]>>, webhook |-> FALSE, reply |-> capturer[h].reply]

\* lines 179-186: read_channel_messages calls _process_channel_message for
\* channel k; the lock of the channel is there (created at 181 if need be) and
\* the call suspends in asyncio.wait_for(lock.acquire(), timeout=5.0).
HStart(h, k, reply) ==
    /\ capturer[h].pc = "idle"
    /\ get_session_data(session_cache, k) # NoneVal
    /\ capturer' = [capturer EXCEPT ![h] = [pc |-> "acquire", channel |-> k,
                                            reply |-> reply, releases |-> 0]]
    /\ UNCHANGED <<channel_locks, chat_cmd, created, fileVars>>
    /\ UNCHANGED <<storeVars, capVars, dispVars, pipeVars>>

\* Lock.acquire runs: it takes a free lock, or appends its future to the
\* waiters and suspends.
HAcquire(h) ==
    LET k == capturer[h].channel
    IN
    /\ capturer[h].pc = "acquire"
    /\ IF lock_free(channel_locks[k])
       THEN /\ channel_locks' = [channel_locks EXCEPT ![k].locked = TRUE]
            /\ capturer' = [capturer EXCEPT ![h].pc = "got"]
       ELSE /\ channel_locks' = [channel_locks EXCEPT ![k].waiters = Append(@, h)]
            /\ capturer' = [capturer EXCEPT ![h].pc = "wait"]
    /\ UNCHANGED <<chat_cmd, created, fileVars>>
    /\ UNCHANGED <<storeVars, capVars, dispVars, pipeVars>>

\* Lock.acquire resumes: the first waiter, woken up by release(), removes its
\* future from the waiters and sets _locked.
HWoken(h) ==
    LET k == capturer[h].channel
    IN
    /\ capturer[h].pc = "wait"
    /\ channel_locks[k].woken
    /\ channel_locks[k].waiters # <<>>
    /\ Head(channel_locks[k].waiters) = h
    /\ channel_locks' = [channel_locks EXCEPT ![k] =
                            [locked |-> TRUE, waiters |-> Tail(@.waiters), woken |-> FALSE]]
    /\ capturer' = [capturer EXCEPT ![h].pc = "got"]
    /\ UNCHANGED <<chat_cmd, created, fileVars>>
    /\ UNCHANGED <<storeVars, capVars, dispVars, pipeVars>>

\* lines 187-190: five seconds have passed and the lock was not acquired.
\* wait_for cancels acquire(), which removes its future from the waiters and,
\* when the lock is not locked, wakes up the first waiter; TimeoutError is
\* logged and the call returns.
HTimeout(h) ==
    LET k == capturer[h].channel
        left == Without(channel_locks[k].waiters, h)
    IN
    /\ capturer[h].pc = "wait"
    /\ channel_locks' = [channel_locks EXCEPT ![k].waiters = left,
                            ![k].woken = ~channel_locks[k].locked /\ left # <<>>]
    /\ capturer' = [capturer EXCEPT ![h].pc = "skipped"]
    /\ UNCHANGED <<chat_cmd, created, fileVars>>
    /\ UNCHANGED <<storeVars, capVars, dispVars, pipeVars>>

\* what lines 216-221 do to the persona's session when the call is for the
\* persona's channel
Touched(k) ==
    IF k = PersonaChannel /\ session.exists
    THEN [session EXCEPT !.last_message_time = now, !.awaiting_response = FALSE]
    ELSE session

\* lines 192-226: the call resumes holding the lock.  Without channel data it
\* returns.  For a message that replies to another it suspends in
\* fetch_message, holding the lock.  Otherwise the message is captured
\* (capture_message is synchronous), the sessions of the channel are touched
\* and stored, and the lock is released; or something in between raises.
HEnter(h, raised) ==
    LET k == capturer[h].channel
        has_data == IF k = PersonaChannel THEN session.exists
                    ELSE get_session_data(session_cache, k) # NoneVal
    IN
    /\ capturer[h].pc = "got"
    /\ IF has_data /\ capturer[h].reply /\ ~raised
       THEN /\ capturer' = [capturer EXCEPT ![h].pc = "fetch"]
            /\ UNCHANGED <<channel_locks, messages_cache, last_msg, n_captures, session,
                           last_activity>>
       ELSE /\ capturer' = [capturer EXCEPT ![h].pc = "done",
                               ![h].releases = ReleasesAfter(channel_locks[k], has_data /\ raised)]
            /\ channel_locks' = [channel_locks EXCEPT
                                    ![k] = LockAfter(@, has_data /\ raised)]
            /\ IF has_data /\ ~raised
               THEN /\ messages_cache' = capture_message(messages_cache, session_cache,
                                                         cap_config, HandlerMsg(h))
                    /\ last_msg' = HandlerMsg(h)
                    /\ n_captures' = n_captures + 1
                    /\ session' = Touched(k)
                    /\ last_activity' = IF k = PersonaChannel THEN now ELSE last_activity
               ELSE UNCHANGED <<messages_cache, last_msg, n_captures, session, last_activity>>
    /\ UNCHANGED <<cap_config, chat_cmd, created, fileVars>>
    /\ UNCHANGED <<now, gen_config, processing_channels, monitor, tasks, remover, clear_log>>
    /\ UNCHANGED <<storeVars, dispVars>>

\* lines 206-226: fetch_message returns and the reply is captured, or it
\* raises, which is logged and nothing is captured; the sessions of the
\* channel are touched and stored, and the lock is released.
HFetched(h, ok) ==
    LET k == capturer[h].channel
    IN
    /\ capturer[h].pc = "fetch"
    /\ capturer' = [capturer EXCEPT ![h].pc = "done",
                                    ![h].releases = ReleasesAfter(channel_locks[k], FALSE)]
    /\ channel_locks' = [channel_locks EXCEPT ![k] = LockAfter(@, FALSE)]
    /\ IF ok
       THEN /\ messages_cache' = capture_message(messages_cache, session_cache,
                                                 cap_config, HandlerMsg(h))
            /\ last_msg' = HandlerMsg(h)
            /\ n_captures' = n_captures + 1
       ELSE UNCHANGED <<messages_cache, last_msg, n_captures>>
    /\ session' = Touched(k)
    /\ last_activity' = IF k = PersonaChannel THEN now ELSE last_activity
    /\ UNCHANGED <<cap_config, chat_cmd, created, fileVars>>
    /\ UNCHANGED <<now, gen_config, processing_channels, monitor, tasks, remover, clear_log>>
    /\ UNCHANGED <<storeVars, dispVars>>

NextLock ==
    \/ \E h \in Handlers, k \in Keys, reply \in BOOLEAN : HStart(h, k, reply)
    \/ \E h \in Handlers : HAcquire(h)
    \/ \E h \in Handlers : HWoken(h)
    \/ \E h \in Handlers : HTimeout(h)
    \/ \E h \in Handlers, raised \in BOOLEAN : HEnter(h, raised)
    \/ \E h \in Handlers, ok \in BOOLEAN : HFetched(h, ok)

\* the fixed text of handle_response
NoResponseMsg == <<"I'm sorry, but I don't have a response at the moment. Could you please try again?">>

\* handle_response, lines 323-331: emoji are removed when remove_ai_emoji is
\* set, and an empty or whitespace-only response is replaced by the fixed text.
handle_response_raw(response, cfg) ==
    IF cfg.remove_ai_emoji THEN remove_emoji(response) ELSE response
handle_response_text(response, cfg) ==
    LET cleaned == IF cfg.remove_ai_emoji THEN remove_emoji(response) ELSE response
    IN  IF IsBlank(cleaned) THEN NoResponseMsg ELSE cleaned

\* response.split('\n')
RECURSIVE SplitLines(_)
SplitLines(t) ==
    IF \E i \in 1..Len(t) : t[i] = NL
    THEN LET i == CHOOSE j \in 1..Len(t) : t[j] = NL /\ \A x \in 1..(j - 1) : t[x] # NL
         IN  <<SubSeq(t, 1, i - 1)>> \o SplitLines(SubSeq(t, i + 1, Len(t)))
    ELSE <<t>>

\* webhook_send / channel.send, AI_utils.py lines 334-358: the texts sent to
\* the channel, in order: with send_message_line_by_line every line that is
\* not blank, otherwise the response as a whole.
SentTexts(response, cfg) ==
    IF cfg.send_message_line_by_line
    THEN SelectSeq(SplitLines(response), LAMBDA line : Strip(line) # <<>>)
    ELSE <<response>>

\* handle_response without the check of lines 316-319: the callback of a
\* persona that is gone goes on to the delivery.
CbStartUnchecked(w) ==
    /\ worker[w].pc = "callback"
    /\ cb_log' = [cb_log EXCEPT ![worker[w].req.id] = Append(@, worker[w].response)]
    /\ worker' = [worker EXCEPT ![w].pc = "deliver",
                                ![w].response = handle_response_text(@, gen_config)]
    /\ UNCHANGED <<now, session, gen_config, processing_channels, monitor, tasks, remover,
                   last_activity, clear_log>>
    /\ UNCHANGED <<response_queue, submitted, api_permits, AI_response, sends>>
    /\ UNCHANGED <<storeVars, capVars>>
    /\ UNCHANGED chatVars

\* handle_response, lines 314-358: the worker calls the callback with the
\* response.  Without the persona's session it returns; otherwise the response
\* is prepared and the callback suspends in the delivery (channel.send /
\* webhook_send).  The finally block drops the mark; back in the worker,
\* task_done() and the 0.5 s sleep.
CbStart(w) ==
    /\ worker[w].pc = "callback"
    /\ cb_log' = [cb_log EXCEPT ![worker[w].req.id] = Append(@, worker[w].response)]
    /\ IF ~session.exists
       THEN /\ processing_channels' = processing_channels \ {Persona}
            /\ worker' = [worker EXCEPT ![w].pc = "pause"]
       ELSE /\ worker' = [worker EXCEPT ![w].pc = "deliver",
                                        ![w].response = handle_response_text(@, gen_config)]
            /\ UNCHANGED processing_channels
    /\ UNCHANGED <<now, session, gen_config, monitor, tasks, remover, last_activity, clear_log>>
    /\ UNCHANGED <<response_queue, submitted, api_permits, AI_response, sends>>
    /\ UNCHANGED <<storeVars, capVars>>
    /\ UNCHANGED chatVars

\* handle_response with a delivery failure that is not handled: the exception
\* leaves the callback and ends the worker's loop.
CbDeliverFatal(w, ok) ==
    /\ worker[w].pc = "deliver"
    /\ IF ok
       THEN /\ worker' = [worker EXCEPT ![w].pc = "clear_read", ![w].delivered = TRUE]
            /\ UNCHANGED processing_channels
       ELSE /\ processing_channels' = processing_channels \ {Persona}
            /\ worker' = [worker EXCEPT ![w].pc = "crashed"]
    /\ UNCHANGED <<now, session, gen_config, monitor, tasks, remover, last_activity, clear_log>>
    /\ UNCHANGED <<response_queue, submitted, api_permits, AI_response, sends, cb_log>>
    /\ UNCHANGED <<storeVars, capVars>>
    /\ UNCHANGED chatVars

\* lines 342-361: the delivery returns, and the callback suspends in
\* remove_sent_messages_from_cache (asyncio.to_thread(read_json, ...)); or it
\* raises, which the handler of line 369 logs before the finally block.
CbDeliver(w, ok) ==
    /\ worker[w].pc = "deliver"
    /\ IF ok
       THEN /\ worker' = [worker EXCEPT ![w].pc = "clear_read", ![w].delivered = TRUE]
            /\ UNCHANGED processing_channels
       ELSE /\ processing_channels' = processing_channels \ {Persona}
            /\ worker' = [worker EXCEPT ![w].pc = "pause"]
    /\ UNCHANGED <<now, session, gen_config, monitor, tasks, remover, last_activity, clear_log>>
    /\ UNCHANGED <<response_queue, submitted, api_permits, AI_response, sends, cb_log>>
    /\ UNCHANGED <<storeVars, capVars>>
    /\ UNCHANGED chatVars

\* lines 334-361 when there is nothing to deliver to: in bot mode
\* client.get_channel returns None ("Channel object not found"), in webhook
\* mode the session has no webhook_url ("Webhook URL not found").  The error
\* is logged, nothing is sent, and line 361 is reached all the same: the
\* callback suspends in remove_sent_messages_from_cache.
CbNoTarget(w) ==
    /\ worker[w].pc = "deliver"
    /\ worker' = [worker EXCEPT ![w].pc = "clear_read"]
    /\ UNCHANGED pipeVars
    /\ UNCHANGED <<response_queue, submitted, api_permits, AI_response, sends, cb_log>>
    /\ UNCHANGED <<storeVars, capVars>>
    /\ UNCHANGED chatVars

\* remove_sent_messages_from_cache, line 542, in the thread: the file is read.
CbClearRead(w) ==
    /\ worker[w].pc = "clear_read"
    /\ worker' = [worker EXCEPT ![w].pc = "clear_write", ![w].cache_data = messages_cache]
    /\ UNCHANGED pipeVars
    /\ UNCHANGED <<response_queue, submitted, api_permits, AI_response, sends, cb_log>>
    /\ UNCHANGED <<storeVars, capVars>>
    /\ UNCHANGED chatVars

\* the messages captured after worker w read its snapshot
Late(w) == {MsgTok[n] : n \in (worker[w].seen + 1)..n_captures}

\* lines 543-547: when the data read holds the channel, its entry is set to {}
\* and the whole file is written back, in the thread.
CbClearWrite(w) ==
    /\ worker[w].pc = "clear_write"
    /\ worker' = [worker EXCEPT ![w].pc = "cb_update"]
    /\ messages_cache' =
          IF worker[w].cache_data[PersonaChannel].present
          THEN [worker[w].cache_data EXCEPT ![PersonaChannel] =
                    [present |-> TRUE, entries |-> <<>>]]
          ELSE messages_cache
    /\ clear_log' = (Late(w) \cap CachedToks(messages_cache)) \ CachedToks(messages_cache')
    /\ UNCHANGED <<now, session, gen_config, processing_channels, monitor, tasks, remover,
                   last_activity>>
    /\ UNCHANGED <<response_queue, submitted, api_permits, AI_response, sends, cb_log>>
    /\ UNCHANGED <<storeVars, cap_config, n_captures, last_msg>>
    /\ UNCHANGED chatVars

\* lines 364-374: awaiting_response and last_message_time are set, the session
\* is stored back into the channel data, the mark is dropped.
CbUpdate(w) ==
    /\ worker[w].pc = "cb_update"
    /\ session' = [session EXCEPT !.awaiting_response = FALSE, !.last_message_time = now,
                                  !.exists = TRUE]
    /\ processing_channels' = processing_channels \ {Persona}
    /\ worker' = [worker EXCEPT ![w].pc = "pause"]
    /\ UNCHANGED <<now, gen_config, monitor, tasks, remover, last_activity,
                   clear_log>>
    /\ UNCHANGED <<response_queue, submitted, api_permits, AI_response, sends, cb_log>>
    /\ UNCHANGED <<storeVars, capVars>>
    /\ UNCHANGED chatVars

\* /remove_ai, commands/ai_manager.py lines 386-410: the persona is deleted
\* from the channel data; it was the last one, so remove_session_data deletes
\* the channel from session_cache and suspends in clear_message_cache.
RemoveAI ==
    /\ session.exists
    /\ remover.pc = "idle"
    /\ session' = [session EXCEPT !.exists = FALSE]
    /\ remover' = [remover EXCEPT !.pc = "clear_read"]
    /\ UNCHANGED <<now, gen_config, processing_channels, monitor, tasks, last_activity, clear_log>>
    /\ UNCHANGED <<storeVars, capVars, dispVars>>
    /\ UNCHANGED chatVars

\* clear_message_cache, line 506, in the thread: the file is read.
RemoveClearRead ==
    /\ remover.pc = "clear_read"
    /\ remover' = [pc |-> "clear_write", cache_data |-> messages_cache]
    /\ UNCHANGED <<now, session, gen_config, processing_channels, monitor, tasks,
                   last_activity, clear_log>>
    /\ UNCHANGED <<storeVars, capVars, dispVars>>
    /\ UNCHANGED chatVars

\* lines 507-509: when the data read holds the channel, the channel is deleted
\* and the whole file is written back, in the thread.
RemoveClearWrite ==
    /\ remover.pc = "clear_write"
    /\ remover' = [pc |-> "idle", cache_data |-> <<>>]
    /\ messages_cache' =
          IF remover.cache_data[PersonaChannel].present
          THEN [remover.cache_data EXCEPT ![PersonaChannel] = NoCache]
          ELSE messages_cache
    /\ UNCHANGED <<now, session, gen_config, processing_channels, monitor, tasks,
                   last_activity, clear_log>>
    /\ UNCHANGED <<storeVars, cap_config, n_captures, last_msg, dispVars>>
    /\ UNCHANGED chatVars

\* The persona at rest, for the specifications that do not move it.
IdlePipeline ==
    /\ now = 0
    /\ session = [exists |-> TRUE, awaiting_response |-> FALSE, last_message_time |-> 0,
                  chat_id |-> 1, muted_users |-> {},
                  channel_chat_id |-> NoChat]
    /\ gen_config = [delay_for_generation |-> 0, cache_count_threshold |-> SizeTrigger,
                     remove_ai_emoji |-> TRUE, send_message_line_by_line |-> TRUE]
    /\ processing_channels = {}
    /\ monitor = [pc |-> "off", cache_count |-> 0, others |-> 0]
    /\ tasks = <<>>
    /\ remover = [pc |-> "idle", cache_data |-> <<>>]
    /\ last_activity = 0
    /\ clear_log = {}
    /\ chat_cmd = [c \in ChatCommands |-> "done"]
    /\ created = 1
    /\ IdleLocks

\* A persona set up with delay_for_generation and cache_count_threshold as
\* /config stored them; nothing captured yet, no monitor running.
InitMonitor ==
    /\ now = 0
    /\ session = [exists |-> TRUE, awaiting_response |-> FALSE, last_message_time |-> 0,
                  chat_id |-> 1, muted_users |-> {},
                  channel_chat_id |-> NoChat]
    /\ gen_config \in [delay_for_generation : Delays, cache_count_threshold : Thresholds,
                       remove_ai_emoji : {TRUE}, send_message_line_by_line : {TRUE}]
    /\ processing_channels = {}
    /\ monitor = [pc |-> "off", cache_count |-> 0, others |-> 0]
    /\ tasks = <<>>
    /\ remover = [pc |-> "idle", cache_data |-> <<>>]
    /\ last_activity = 0
    /\ clear_log = {}
    /\ chat_cmd = [c \in ChatCommands |-> "done"]
    /\ created = 1
    /\ IdleLocks

\* the upstream outcome explored with the persona: a reply (get_client may
\* still raise)
PipelineOutcomes == {"text"}

\* The steps of a generation: the response task, a worker, the callback.
NextGeneration ==
    \/ \E i \in 1..Len(tasks) : SendStart(i)
    \/ \E i \in 1..Len(tasks) : SendRead(i)
    \/ \E i \in 1..Len(tasks) : SendResume(i)
    \/ \E i \in 1..Len(tasks) : SendRecheck(i)
    \/ \E i \in 1..Len(tasks), ok \in BOOLEAN : SendQueue(i, ok)
    \/ \E w \in Workers : WGet(w)
    \/ \E w \in Workers : WRead(w)
    \/ \E w \in Workers : WStart(w)
    \/ \E w \in Workers, ok \in BOOLEAN : WClient(w, ok)
    \/ \E w \in Workers, outcome \in PipelineOutcomes : WSend(w, outcome)
    \/ \E w \in Workers : WClose(w)
    \/ \E w \in Workers : CbStart(w)
    \/ \E w \in Workers, ok \in BOOLEAN : CbDeliver(w, ok)
    \/ \E w \in Workers : CbClearRead(w)
    \/ \E w \in Workers : CbClearWrite(w)
    \/ \E w \in Workers : CbUpdate(w)
    \/ \E w \in Workers : WPause(w)

NextPipeline ==
    \/ OnMessage(Ann, MaxCaptures)
    \/ MonPoll
    \/ MonRead
    \/ MonDecide
    \/ NextGeneration
    \/ RemoveAI
    \/ RemoveClearRead
    \/ RemoveClearWrite

NextMonitor ==
    \/ Tick
    \/ Typing
    \/ OnMessage(Speaker(n_captures + 1), MaxMessages)
    \/ MonPoll
    \/ MonRead
    \/ MonDecide
    \/ NextGeneration
    \/ RemoveAI
    \/ RemoveClearRead
    \/ RemoveClearWrite

\* The session store at rest: every channel has session data, nothing is queued.
IdleStore == InitStore /\ session_json = [k \in Keys |-> Data(0)]

\* The message cache the workers read: channel c1 holds one captured message,
\* channel c2 holds none.
PromptCache ==
    /\ messages_cache = [k \in Keys |->
          IF k = "c1"
          THEN [present |-> TRUE,
                entries |-> <<[key |-> MessageKey(1), text |-> <<"hi">>]>>]
          ELSE [present |-> TRUE, entries |-> <<>>]]
    /\ cap_config = DefaultConfig
    /\ n_captures = 0
    /\ last_msg = NoMsg

InitSpecDispatch == IdleStore /\ PromptCache /\ InitDispatch /\ IdlePipeline

SpecDispatch == InitSpecDispatch /\ [][NextDispatch]_vars

\* The message cache at rest, for the specifications that do not move it.
IdleCapture ==
    /\ messages_cache = [k \in Keys |-> NoCache]
    /\ cap_config = DefaultConfig
    /\ n_captures = 0
    /\ last_msg = NoMsg

NextStore ==
    \/ \E k \in Keys : Update(k)
    \/ \E k \in Keys : Remove(k)
    \/ UpdGet
    \/ UpdRead
    \/ UpdWrite
    \/ UpdDone
    \/ CloseCancel
    \/ CloseJoin

InitSpecStore == InitStore /\ IdleCapture /\ InitDispatch /\ IdlePipeline

\* time_typing, utils/AI_utils.py lines 88-101: a typing event in a channel
\* that has session data sets last_message_time of its AIs and creates a task
\* that runs update_session_data with the channel data: the cache is set and
\* one more job is put on the queue.
time_typing(k) ==
    /\ get_session_data(session_cache, k) # NoneVal
    /\ Update(k)

\* SpecTyping: typing events in channels that are set up, and the writer.
NextTyping ==
    \/ \E k \in Keys : time_typing(k)
    \/ UpdGet
    \/ UpdRead
    \/ UpdWrite
    \/ UpdDone

InitSpecTyping == IdleStore /\ IdleCapture /\ InitDispatch /\ IdlePipeline

SpecTyping == InitSpecTyping /\ [][NextTyping]_vars

\* SpecWrite: the session store with durable writes that may fail.  The writer
\* task is scheduled whenever it is ready, and the threads it awaits return:
\* its steps are weakly fair.
WriterStep ==
    \/ UpdGet
    \/ UpdRead
    \/ UpdWrite
    \/ \E truncated \in BOOLEAN : UpdWriteFail(truncated)
    \/ UpdDone

NextWrite ==
    \/ \E k \in Keys : Update(k)
    \/ UpdGet
    \/ UpdRead
    \/ UpdWrite
    \/ \E truncated \in BOOLEAN : UpdWriteFail(truncated)
    \/ UpdDone

InitSpecWrite == InitStore /\ IdleCapture /\ InitDispatch /\ IdlePipeline

SpecWrite == InitSpecWrite /\ [][NextWrite]_vars /\ WF_vars(WriterStep)

SpecStore == InitSpecStore /\ [][NextStore]_vars

InitSpecCapture == InitStore /\ InitCapture /\ InitDispatch /\ IdlePipeline

SpecCapture == InitSpecCapture /\ [][NextCapture]_vars

\* SpecPipeline: delay_for_generation is 0 and the clock stands still, so the
\* monitor fires whenever it finds something cached.
InitSpecPipeline == IdleStore /\ IdleCapture /\ InitDispatch /\ IdlePipeline

SpecPipeline == InitSpecPipeline /\ [][NextPipeline]_vars

\* One worker's next step: process_response_queue with the calls it awaits
\* (cai_response, the callback handle_response).
WorkerStep(w) ==
    \/ WGet(w)
    \/ WRead(w)
    \/ WStart(w)
    \/ \E ok \in BOOLEAN : WClient(w, ok)
    \/ \E outcome \in PipelineOutcomes : WSend(w, outcome)
    \/ WClose(w)
    \/ CbStart(w)
    \/ \E ok \in BOOLEAN : CbDeliver(w, ok)
    \/ CbNoTarget(w)
    \/ CbClearRead(w)
    \/ CbClearWrite(w)
    \/ CbUpdate(w)
    \/ WPause(w)

\* SpecDeliver: the pipeline of SpecPipeline for a persona that stays set up,
\* where the delivery may also find no channel object or no webhook URL.  The event loop runs every task that
\* is ready, and every call a worker awaits returns or raises (the upstream
\* calls are bounded by timeouts): each worker's steps are weakly fair.
NextDeliver ==
    \/ OnMessage(Ann, MaxCaptures)
    \/ MonPoll
    \/ MonRead
    \/ MonDecide
    \/ NextGeneration
    \/ \E w \in Workers : CbNoTarget(w)

InitSpecDeliver == IdleStore /\ IdleCapture /\ InitDispatch /\ IdlePipeline

SpecDeliver ==
    /\ InitSpecDeliver
    /\ [][NextDeliver]_vars
    /\ \A w \in Workers : WF_vars(WorkerStep(w))

\* SpecLock: three calls of _process_channel_message, for messages posted in
\* the persona's channel.
InitSpecLock == IdleStore /\ IdleCapture /\ InitDispatch /\ IdlePipeline

SpecLock == InitSpecLock /\ [][NextLock]_vars

InitSpecMonitor == IdleStore /\ IdleCapture /\ InitDispatch /\ InitMonitor

SpecMonitor == InitSpecMonitor /\ [][NextMonitor]_vars

(***************************************************************************)
(* SpecChat: a persona that /setup has just stored, still without a        *)
(* conversation: /setup is in initialize_session_messages while messages   *)
(* arrive and the monitor triggers responses.                              *)
(***************************************************************************)
InitChat ==
    /\ now = 0
    /\ session = [exists |-> TRUE, awaiting_response |-> FALSE, last_message_time |-> 0,
                  chat_id |-> NoChat, muted_users |-> {},
                  channel_chat_id |-> NoChat]
    /\ gen_config = [delay_for_generation |-> 0, cache_count_threshold |-> SizeTrigger,
                     remove_ai_emoji |-> TRUE, send_message_line_by_line |-> TRUE]
    /\ processing_channels = {}
    /\ monitor = [pc |-> "off", cache_count |-> 0, others |-> 0]
    /\ tasks = <<>>
    /\ remover = [pc |-> "idle", cache_data |-> <<>>]
    /\ last_activity = 0
    /\ clear_log = {}
    /\ chat_cmd = [c \in ChatCommands |-> IF c = "setup" THEN "new_chat" ELSE "done"]
    /\ created = 0
    /\ IdleLocks

NextChat ==
    \/ OnMessage(Ann, MaxCaptures)
    \/ MonPoll
    \/ MonRead
    \/ MonDecide
    \/ \E i \in 1..Len(tasks) : SendChatAcquire(i)
    \/ \E i \in 1..Len(tasks), ok \in BOOLEAN : SendChatDone(i, ok)
    \/ SetupChatAcquire("setup")
    \/ \E ok \in BOOLEAN : SetupChatDone("setup", ok)
    \/ NextGeneration

InitSpecChat == IdleStore /\ IdleCapture /\ InitDispatch /\ InitChat

SpecChat == InitSpecChat /\ [][NextChat]_vars

(***************************************************************************)
(* SpecApi: everything that takes a permit of api_semaphore at once: the   *)
(* two workers with requests of the persona, and two /setup commands in    *)
(* new_chat_id.                                                            *)
(***************************************************************************)
InitApi ==
    /\ now = 0
    /\ session = [exists |-> TRUE, awaiting_response |-> FALSE, last_message_time |-> 0,
                  chat_id |-> NoChat, muted_users |-> {},
                  channel_chat_id |-> NoChat]
    /\ gen_config = [delay_for_generation |-> 0, cache_count_threshold |-> SizeTrigger,
                     remove_ai_emoji |-> TRUE, send_message_line_by_line |-> TRUE]
    /\ processing_channels = {}
    /\ monitor = [pc |-> "off", cache_count |-> 0, others |-> 0]
    /\ tasks = <<>>
    /\ remover = [pc |-> "idle", cache_data |-> <<>>]
    /\ last_activity = 0
    /\ clear_log = {}
    /\ chat_cmd = [c \in ChatCommands |-> "new_chat"]
    /\ created = 0
    /\ IdleLocks

\* the upstream outcomes explored in SpecApi
ApiOutcomes == {"text", "closed", "error"}

NextApi ==
    \/ \E r \in Requests : QueueResponse(r, PersonaChannel, TRUE)
    \/ \E w \in Workers : WGet(w)
    \/ \E w \in Workers : WRead(w)
    \/ \E w \in Workers : WStart(w)
    \/ \E w \in Workers, ok \in BOOLEAN : WClient(w, ok)
    \/ \E w \in Workers, outcome \in ApiOutcomes : WSend(w, outcome)
    \/ \E w \in Workers : WBackoff(w)
    \/ \E w \in Workers : WNewChat(w)
    \/ \E w \in Workers, ok \in BOOLEAN : WCreateChat(w, ok)
    \/ \E w \in Workers : WClose(w)
    \/ \E w \in Workers : WCallback(w)
    \/ \E w \in Workers : WPause(w)
    \/ \E c \in ChatCommands : SetupChatAcquire(c)
    \/ \E c \in ChatCommands, ok \in BOOLEAN : SetupChatDone(c, ok)

InitSpecApi == IdleStore /\ PromptCache /\ InitDispatch /\ InitApi

SpecApi == InitSpecApi /\ [][NextApi]_vars

(***************************************************************************)
(* SpecReply: the persona of SpecPipeline with replies of every shape      *)
(* (text, several lines, only markup, only emoji, blank) and with the      *)
(* settings of /config that decide what is sent to the channel.            *)
(***************************************************************************)
InitReply ==
    /\ now = 0
    /\ session = [exists |-> TRUE, awaiting_response |-> FALSE, last_message_time |-> 0,
                  chat_id |-> 1, muted_users |-> {},
                  channel_chat_id |-> NoChat]
    /\ gen_config \in [delay_for_generation : {0}, cache_count_threshold : {SizeTrigger},
                       remove_ai_emoji : BOOLEAN, send_message_line_by_line : BOOLEAN]
    /\ processing_channels = {}
    /\ monitor = [pc |-> "off", cache_count |-> 0, others |-> 0]
    /\ tasks = <<>>
    /\ remover = [pc |-> "idle", cache_data |-> <<>>]
    /\ last_activity = 0
    /\ clear_log = {}
    /\ chat_cmd = [c \in ChatCommands |-> "done"]
    /\ created = 1
    /\ IdleLocks

\* the upstream outcomes explored in SpecReply ("lines" is the ordinary reply)
ReplyOutcomes == {"blank", "action", "emoji", "lines", "closed"}

NextReply ==
    \/ OnMessage(Ann, MaxCaptures)
    \/ MonPoll
    \/ MonRead
    \/ MonDecide
    \/ \E i \in 1..Len(tasks) : SendStart(i)
    \/ \E i \in 1..Len(tasks) : SendRead(i)
    \/ \E i \in 1..Len(tasks) : SendResume(i)
    \/ \E i \in 1..Len(tasks) : SendRecheck(i)
    \/ \E i \in 1..Len(tasks) : SendQueue(i, TRUE)
    \/ \E w \in Workers : WGet(w)
    \/ \E w \in Workers : WRead(w)
    \/ \E w \in Workers : WStart(w)
    \/ \E w \in Workers : WClient(w, TRUE)
    \/ \E w \in Workers, outcome \in ReplyOutcomes : WSend(w, outcome)
    \/ \E w \in Workers : WBackoff(w)
    \/ \E w \in Workers : WNewChat(w)
    \/ \E w \in Workers : WCreateChat(w, TRUE)
    \/ \E w \in Workers : WClose(w)
    \/ \E w \in Workers : CbStart(w)
    \/ \E w \in Workers : CbDeliver(w, TRUE)
    \/ \E w \in Workers : CbClearRead(w)
    \/ \E w \in Workers : CbClearWrite(w)
    \/ \E w \in Workers : CbUpdate(w)
    \/ \E w \in Workers : WPause(w)

InitSpecReply == IdleStore /\ IdleCapture /\ InitDispatch /\ InitReply

SpecReply == InitSpecReply /\ [][NextReply]_vars

(***************************************************************************)
(* SpecMute: the persona of SpecPipeline with one user muted (/mute), and  *)
(* two users writing in turn.                                              *)
(***************************************************************************)
InitMute ==
    /\ now = 0
    /\ session = [exists |-> TRUE, awaiting_response |-> FALSE, last_message_time |-> 0,
                  chat_id |-> 1, muted_users |-> {Bob.username},
                  channel_chat_id |-> NoChat]
    /\ gen_config = [delay_for_generation |-> 0, cache_count_threshold |-> SizeTrigger,
                     remove_ai_emoji |-> TRUE, send_message_line_by_line |-> TRUE]
    /\ processing_channels = {}
    /\ monitor = [pc |-> "off", cache_count |-> 0, others |-> 0]
    /\ tasks = <<>>
    /\ remover = [pc |-> "idle", cache_data |-> <<>>]
    /\ last_activity = 0
    /\ clear_log = {}
    /\ chat_cmd = [c \in ChatCommands |-> "done"]
    /\ created = 1
    /\ IdleLocks

NextMute ==
    \/ OnMessage(Speaker(n_captures + 1), MaxMessages)
    \/ MonPoll
    \/ MonRead
    \/ MonDecide
    \/ NextGeneration

InitSpecMute == IdleStore /\ IdleCapture /\ InitDispatch /\ InitMute

SpecMute == InitSpecMute /\ [][NextMute]_vars

(***************************************************************************)
(* SpecRemove: remove_session_data as a whole (the store part and          *)
(* clear_message_cache) on channel c1, with updates, captures and the      *)
(* writer task running.                                                    *)
(***************************************************************************)
\* remove_session_data, lines 522-530: the store part, then the suspension in
\* clear_message_cache.
RemoveSession ==
    /\ remover.pc = "idle"
    /\ remove_session_data(PersonaChannel)
    /\ remover' = [remover EXCEPT !.pc = "clear_read"]
    /\ UNCHANGED <<now, session, gen_config, processing_channels, monitor, tasks,
                   last_activity, clear_log>>
    /\ UNCHANGED <<capVars, dispVars>>
    /\ UNCHANGED chatVars

\* the messages sent to channel c1 in SpecRemove
RemoveMsgs == {m \in Msgs : m.channel = PersonaChannel /\ m.author = Ann /\ ~m.reply
                            /\ m.content \in {<<"hi">>, <<"yo">>}}

NextRemove ==
    \/ \E k \in Keys : Update(k)
    \/ RemoveSession
    \/ RemoveClearRead
    \/ RemoveClearWrite
    \/ \E m \in RemoveMsgs : Capture(m)
    \/ UpdGet
    \/ UpdRead
    \/ UpdWrite
    \/ UpdDone

InitSpecRemove == InitStore /\ IdleCapture /\ InitDispatch /\ IdlePipeline

SpecRemove == InitSpecRemove /\ [][NextRemove]_vars

(***************************************************************************)
(* Claims on the session store                                             *)
(***************************************************************************)
\* The writer is idle and has nothing left to consume.
StoreDrained == session_update_queue = <<>> /\ upd_pc = "get"

\* What the durable store holds for key k, read the way get_session_data reads.
Durable(k) == get_session_data(session_json, k)

C3_CloseDrains ==
    close_pc \in {"join", "closed"} => \A k \in Keys : Durable(k) = last_call[k]

(***************************************************************************)
(* Claims on the message cache                                             *)
(***************************************************************************)
\* C5: capture is idempotent under redelivery: right after a message has been
\* captured, capturing the same message again (the same rendered fragment)
\* leaves the cache unchanged, also when the first capture was merged into
\* the previous entry of the same author.
C5_IdempotentCapture ==
    last_msg # NoMsg =>
        capture_message(messages_cache, session_cache, cap_config, last_msg) = messages_cache

\* every upstream send of request r so far timed out, and there was one
AllTimeouts(r) ==
    /\ sends[r] # <<>>
    /\ \A i \in 1..Len(sends[r]) : sends[r][i] = "timeout"

\* C8: when every upstream send of a request times out, the request has been
\* sent exactly MaxRetries times by the time its callback runs, and the
\* callback gets the error fallback text.
C8_RetryBound ==
    \A r \in Requests :
        (cb_log[r] # <<>> /\ AllTimeouts(r)) =>
            /\ Len(sends[r]) = MaxRetries
            /\ cb_log[r] = <<ErrorMsg>>

\* C9: when the first two sends of a request time out and the third returns a
\* non-blank reply, the callback gets the cleaned text of that third reply.
C9_ThirdAttemptDelivered ==
    \A r \in Requests :
        (/\ cb_log[r] # <<>>
         /\ Len(sends[r]) = 3
         /\ sends[r][1] = "timeout" /\ sends[r][2] = "timeout"
         /\ sends[r][3] \in {"text", "decorated"}) =>
            cb_log[r] = <<CleanResponse(ReplyText(r, 3, sends[r][3]))>>

\* A response task that has marked the persona and is not done.
TaskRunning(i) == tasks[i].pc \in {"read", "resume", "sleep3", "typing"}

\* The generation executions of the persona under way: response tasks past
\* the mark, requests on the queue, workers between taking a request and the
\* end of its callback.
Executions ==
    Cardinality({i \in 1..Len(tasks) : TaskRunning(i)})
    + Len(response_queue)
    + Cardinality({w \in Workers : worker[w].pc \notin {"idle", "pause"}})

\* C1: at most one generation execution of the persona is under way at any
\* time, from the mark to the end of the callback, and at most one response
\* task of the persona is alive (a trigger cancels the one it finds running).
C1_Exclusive ==
    /\ Executions <= 1
    /\ Cardinality({i \in 1..Len(tasks) : tasks[i].pc # "done"}) <= 1

\* A generation is being delivered while a newer message waits in the cache
\* with awaiting_response reset: only the mark keeps the monitor from firing.
C1_Witness ==
    /\ being_processed(Persona)
    /\ \E w \in Workers : worker[w].pc = "deliver" /\ worker[w].seen < n_captures
    /\ session.exists /\ ~session.awaiting_response
    /\ messages_cache[PersonaChannel].entries # <<>>
    /\ monitor.pc = "sleep"

\* C4: the clear made by a generation's callback leaves in the cache every
\* message captured after the worker read the snapshot of that generation.
C4_LateSurvive == clear_log = {}

\* the monitor is about to evaluate its trigger, and it will fire
MonitorFires ==
    /\ monitor.pc = "decide"
    /\ ShouldTrigger(now - session.last_message_time, gen_config.delay_for_generation,
                     monitor.cache_count)

C7_SizeTrigger ==
    monitor.pc = "decide" =>
        /\ monitor.cache_count >= gen_config.cache_count_threshold => MonitorFires
        /\ (MonitorFires /\ now - session.last_message_time < gen_config.delay_for_generation) =>
                monitor.cache_count >= gen_config.cache_count_threshold

\* C10: a persona is marked as being processed only while a generation
\* execution of it is under way; every way out of the execution drops the mark.
C10_Unmarked == being_processed(Persona) => Executions >= 1

\* what get_session_data returns for the state the last call on key k asked for
LastAsked(k) == IF last_call[k].tag = "data" THEN last_call[k] ELSE NoneVal

\* C11: get_session_data returns what the last update_session_data or
\* remove_session_data call on the key left, in every state until the next
\* call on that key, whatever the writer task does in between.
C11_GetReturnsLast ==
    \A k \in Keys : get_session_data(session_cache, k) = LastAsked(k)

\* C12: once remove_session_data has returned for channel c1, and until the
\* next update of that channel, get_session_data finds no session for it, its
\* message cache holds no entry (captures add none), and when the writer has
\* drained its queue session.json holds no session for it either.
C12_Removed ==
    (/\ calls_on[PersonaChannel] > 0
     /\ last_call[PersonaChannel] = NoneVal
     /\ remover.pc = "idle") =>
        /\ get_session_data(session_cache, PersonaChannel) = NoneVal
        /\ messages_cache[PersonaChannel].entries = <<>>
        /\ StoreDrained => session_json[PersonaChannel].tag # "data"

\* C13: no send_message call is made for a request without a conversation id,
\* and for a session that starts without a conversation id create_chat makes
\* one conversation at most, whoever asks for it and however the callers
\* interleave.
C13_SingleFlight ==
    /\ \A w \in Workers :
          worker[w].pc \in {"get_client", "send", "backoff", "create_chat"} => worker[w].req.ids_ok
    /\ created <= 1

\* C14: a request made while the session has no conversation id ends its
\* cycle there: its worker never gets to deliver a text to the channel nor to
\* clear the channel's message cache.
C14_Aborted ==
    \A w \in Workers :
        (worker[w].req # NoRequest /\ ~worker[w].req.ids_ok) =>
            worker[w].pc \notin {"deliver", "clear_read", "clear_write", "cb_update"}

\* C15: no message written by a user who is muted for the channel's persona
\* is found in the channel's message cache.
C15_MutedNotCached ==
    \A n \in 1..n_captures :
        Speaker(n).username \in session.muted_users =>
            MsgTok[n] \notin CachedToks(messages_cache)

\* the muted user has written twice, between messages of the other user that
\* were captured
C15_Witness ==
    /\ n_captures >= 4
    /\ Speaker(2).username \in session.muted_users
    /\ {MsgTok[1], MsgTok[3]} \subseteq CachedToks(messages_cache)
    /\ MsgTok[2] \notin CachedToks(messages_cache)

\* the tasks that are inside an `async with api_semaphore` block
Holding ==
    Cardinality({w \in Workers : worker[w].pc \in {"get_client", "send", "backoff", "create_chat"}})
    + Cardinality({c \in ChatCommands : chat_cmd[c] = "create_chat"})
    + Cardinality({i \in 1..Len(tasks) : tasks[i].pc = "create_chat"})

HeldBy(r) == {w \in Workers : worker[w].req.id = r}

\* C17: a submitted request is in the queue, with a worker, or answered;
\* queue_response puts the request at the tail of the queue whatever the queue
\* holds, and a worker takes the request at the head of the queue, so requests
\* leave the queue in the order they were submitted.
C17_NeverDroppedFifo ==
    /\ [](\A r \in submitted :
            \/ \E i \in 1..Len(response_queue) : response_queue[i].id = r
            \/ HeldBy(r) # {}
            \/ cb_log[r] # <<>>)
    /\ [][/\ \A r \in submitted' \ submitted :
                /\ Len(response_queue') = Len(response_queue) + 1
                /\ SubSeq(response_queue', 1, Len(response_queue)) = response_queue
                /\ response_queue'[Len(response_queue')].id = r
          /\ Len(response_queue') < Len(response_queue) =>
                /\ response_queue' = Tail(response_queue)
                /\ \E w \in Workers : /\ worker[w].pc = "idle"
                                       /\ worker'[w].req = Head(response_queue)]_vars

\* both requests were submitted: one is with a worker, the other waits
C17_Witness ==
    /\ Len(response_queue) = 1
    /\ response_queue[1].id = "r1"
    /\ HeldBy("r2") # {}
    /\ cb_log["r2"] = <<>>

\* request r waits in the queue
Queued(r) == \E i \in 1..Len(response_queue) : response_queue[i].id = r

\* C18: a request is taken by one worker at most, its callback is never
\* called twice, is not called before a worker has generated its response, and
\* has been called once when the worker is through with the request.
C18_ExactlyOnce ==
    \A r \in Requests :
        /\ Cardinality(HeldBy(r)) <= 1
        /\ Len(cb_log[r]) <= 1
        /\ (r \notin submitted \/ Queued(r)) => cb_log[r] = <<>> /\ HeldBy(r) = {}
        /\ \A w \in HeldBy(r) : Len(cb_log[r]) = 1 <=> worker[w].pc = "pause"
        /\ (r \in submitted /\ ~Queued(r) /\ HeldBy(r) = {}) => Len(cb_log[r]) = 1

\* the two workers have worked at the same time, each on one request, and one
\* request failed upstream; both callbacks have run
C18_Witness ==
    /\ \A w \in Workers : worker[w].pc = "pause"
    /\ worker["w1"].req.id # worker["w2"].req.id
    /\ \A r \in Requests : Len(cb_log[r]) = 1
    /\ \E r \in Requests : sends[r] = <<"error">>

\* C19: the persona's session holds the newest conversation made for it, so
\* after a worker has made a new one for a closed conversation the next request
\* is sent to the new one; a request is sent upstream MaxRetries times before
\* and RetriesAfterNewChat times after the new conversation at most, and a
\* request that fails after the new conversation ends with the fallback text.
C19_Recreate ==
    /\ session.chat_id = created
    /\ \A r \in Requests : Len(sends[r]) <= MaxRetries + RetriesAfterNewChat
    /\ \A w \in Workers :
          worker[w].phase = 2 =>
              /\ worker[w].attempt < RetriesAfterNewChat
              /\ worker[w].pc # "create_chat"

\* C20: no text sent to the channel is empty or whitespace only, something is
\* sent, and a response that is empty or whitespace only once the emoji are
\* removed is replaced by the fixed text.
C20_NeverBlank ==
    \A w \in Workers :
        worker[w].pc = "deliver" =>
            LET r == worker[w].req.id
                sent == SentTexts(worker[w].response, gen_config)
            IN  /\ sent # <<>>
                /\ \A i \in 1..Len(sent) : ~IsBlank(sent[i])
                /\ IsBlank(handle_response_raw(cb_log[r][Len(cb_log[r])], gen_config))
                      => worker[w].response = NoResponseMsg

\* cai_response returned "" for a reply that was markup only, and the fixed
\* text is about to be sent
C20_Witness ==
    \E w \in Workers :
        /\ worker[w].pc = "deliver"
        /\ sends[worker[w].req.id] = <<"action">>
        /\ cb_log[worker[w].req.id] = <<(<<>>)>>
        /\ worker[w].response = NoResponseMsg

(***************************************************************************)
(* Claims C21..C30                                                         *)
(***************************************************************************)

\* C21: a failure inside the completion callback does not stop the worker
\* loop: a worker that is delivering always comes back to the head of its
\* loop, and every request on the queue is eventually taken by a worker and
\* handed to the callback.
C21_WorkerGoesOn ==
    /\ \A w \in Workers : (worker[w].pc = "deliver") ~> (worker[w].pc = "idle")
    /\ \A r \in Requests : Queued(r) ~> (cb_log[r] # <<>>)

\* the delivery of the first request has failed (the callback has run and the
\* first message is still cached), and a worker has taken the second request
\* from the queue and has delivered its reply
C21_Witness ==
    /\ cb_log["r1"] # <<>>
    /\ HeldBy("r1") = {}
    /\ MsgTok[1] \in CachedToks(messages_cache)
    /\ session.exists
    /\ worker["w2"].pc = "idle"
    /\ worker["w1"].req.id = "r2"
    /\ worker["w1"].pc = "clear_read"
    /\ worker["w1"].delivered

\* C22: a generation cycle clears the channel's message cache only after the
\* reply was delivered: whenever a callback empties a cache that held
\* messages, its delivery has happened.
C22_ClearedAfterDelivery ==
    [][\A w \in Workers :
          (/\ worker[w].pc = "clear_write"
           /\ worker'[w].pc = "cb_update"
           /\ messages_cache[PersonaChannel].entries # <<>>
           /\ messages_cache'[PersonaChannel].entries = <<>>)
          => worker[w].delivered]_vars

C24_TriggerState ==
    MonitorFires =>
        /\ session.exists
        /\ ~session.awaiting_response
        /\ Persona \notin processing_channels
        /\ messages_cache[PersonaChannel].entries # <<>>
        /\ \/ now - last_activity >= gen_config.delay_for_generation
           \/ Len(messages_cache[PersonaChannel].entries) >= gen_config.cache_count_threshold

\* C25: a monitor that wakes up and finds the persona's session gone ends
\* there; an ended monitor creates no response task; and a monitor runs again
\* for the persona only when a message handler starts a new one for a persona
\* that exists.
C25_MonitorStops ==
    /\ [][(monitor.pc = "sleep" /\ ~session.exists /\ monitor'.pc # "sleep")
            => monitor'.pc = "stopped"]_vars
    /\ [][monitor.pc = "stopped" => Len(tasks') = Len(tasks)]_vars
    /\ [][(monitor.pc = "stopped" /\ monitor'.pc # "stopped")
            => session.exists /\ n_captures' = n_captures + 1 /\ monitor'.pc = "sleep"]_vars

\* the persona was removed after its monitor had triggered a generation; the
\* monitor has ended at its next tick
C25_Witness ==
    /\ monitor.pc = "stopped"
    /\ ~session.exists
    /\ tasks # <<>>
    /\ remover.pc = "idle"

\* the calls that hold the lock of channel k
Inside(k) == {h \in Handlers : capturer[h].channel = k /\ capturer[h].pc \in {"got", "fetch"}}

\* C26: at most one call at a time is inside the locked section of a channel,
\* and the lock is locked exactly while one is; a call that timed out waiting
\* has skipped its capture for good, has captured nothing and has released
\* nothing; a call releases the lock once, on its way out of the section, and
\* not before.
C26_LockExclusive ==
    /\ [](\A k \in Keys :
            /\ Cardinality(Inside(k)) <= 1
            /\ channel_locks[k].locked <=> Inside(k) # {})
    /\ [](\A h \in Handlers :
            /\ capturer[h].pc = "skipped" =>
                  /\ capturer[h].releases = 0
                  /\ MsgTok[HandlerNo[h]] \notin CachedToks(messages_cache)
            /\ capturer[h].pc = "done" => capturer[h].releases = 1
            /\ capturer[h].pc \notin {"skipped", "done"} => capturer[h].releases = 0)
    /\ [][\A h \in Handlers : capturer[h].pc = "skipped" => capturer'[h].pc = "skipped"]_vars

\* one call holds the lock of the persona's channel while it fetches the
\* message replied to, a second call has timed out waiting for that lock, a
\* third one has raised inside the section and has released the lock once
C26_Witness ==
    /\ capturer["h1"].pc = "fetch" /\ capturer["h1"].channel = PersonaChannel
    /\ capturer["h2"].pc = "skipped" /\ capturer["h2"].channel = PersonaChannel
    /\ capturer["h3"].pc = "done" /\ capturer["h3"].channel = PersonaChannel
    /\ MsgTok[3] \notin CachedToks(messages_cache)
    /\ ~capturer["h3"].reply

\* the jobs of key k that wait on the queue
PendingOn(k) == Cardinality({i \in 1..Len(session_update_queue) : session_update_queue[i].key = k})

\* C27: touches of one channel that arrive before the pending durable write
\* has executed are coalesced: at most one job per key waits on the queue,
\* however many typing events there were.
C27_Coalesced == \A k \in Keys : PendingOn(k) <= 1

\* C28: what a persona's request gets does not depend on the generation of
\* another persona: while a worker holds a request of channel c2, a request
\* of channel c1 whose only upstream send returned a reply is handed that
\* reply, cleaned, whatever happens to the other request.
C28_Isolated ==
    \A w, w2 \in Workers :
        (/\ w # w2
         /\ worker[w].pc = "callback"
         /\ worker[w].req.channel = "c1"
         /\ worker[w2].req.channel = "c2"
         /\ sends[worker[w].req.id] = <<"text">>)
        => worker[w].response = CleanResponse(ReplyText(worker[w].req.id, 1, "text"))

\* C29: two consecutive captures of messages that are no replies, by the same
\* author in the same channel, with nothing captured in between, leave one
\* cache entry that holds both fragments: the second capture adds no entry.
C29_Merged ==
    [][(/\ n_captures = 1
        /\ n_captures' = 2
        /\ ~last_msg.reply /\ ~last_msg.webhook
        /\ ~last_msg'.reply /\ ~last_msg'.webhook
        /\ last_msg'.author = last_msg.author
        /\ last_msg'.channel = last_msg.channel
        /\ last_msg'.content # last_msg.content
        /\ last_msg.content \in {<<"hi">>, <<"yo">>}
        /\ last_msg'.content \in {<<"hi">>, <<"yo">>}
        /\ Len(messages_cache[last_msg.channel].entries) = 1)
       => /\ Len(messages_cache'[last_msg.channel].entries) = 1
          /\ messages_cache'[last_msg.channel].entries[1].text
                # messages_cache[last_msg.channel].entries[1].text]_vars

\* C30: when the completion callback of a generation has finished and the
\* persona's session exists, awaiting_response is false, whether the delivery
\* succeeded or raised.
C30_FlagReset ==
    [][\A w \in Workers :
          (/\ worker[w].pc \in {"callback", "deliver", "cb_update"}
           /\ worker'[w].pc = "pause"
           /\ session'.exists)
          => ~session'.awaiting_response]_vars

(***************************************************************************)
(* Claims C31..C39                                                         *)
(***************************************************************************)
\* SpecRecheck: the persona's AI_send_message task at the start of its 3 s
\* wait (AI_utils.py line 295).  At time 0 the monitor fired for one cached
\* message, the task marked the persona, set awaiting_response and
\* last_message_time = 0 (lines 256, 275-278) and found the cache non-empty.
InitRecheck ==
    /\ now = 0
    /\ session = [exists |-> TRUE, awaiting_response |-> TRUE, last_message_time |-> 0,
                  chat_id |-> 1, muted_users |-> {},
                  channel_chat_id |-> NoChat]
    /\ gen_config = [delay_for_generation |-> 0, cache_count_threshold |-> SizeTrigger,
                     remove_ai_emoji |-> TRUE, send_message_line_by_line |-> TRUE]
    /\ processing_channels = {Persona}
    /\ monitor = [pc |-> "sleep", cache_count |-> 1, others |-> 0]
    /\ tasks = <<[pc |-> "sleep3", cache_empty |-> FALSE]>>
    /\ remover = [pc |-> "idle", cache_data |-> <<>>]
    /\ last_activity = 0
    /\ clear_log = {}
    /\ chat_cmd = [c \in ChatCommands |-> "done"]
    /\ created = 1
    /\ IdleLocks

InitSpecRecheck == IdleStore /\ PromptCache /\ InitDispatch /\ InitRecheck

NextRecheck ==
    \/ Tick
    \/ Typing
    \/ OnMessage(Speaker(n_captures + 1), MaxCaptures)
    \/ MonPoll
    \/ MonRead
    \/ MonDecide
    \/ NextGeneration

SpecRecheck == InitSpecRecheck /\ [][NextRecheck]_vars

\* C31: when a typing event or a new message has refreshed the persona's
\* last_message_time during the 3-second wait of AI_send_message (the task
\* wrote time 0 before the wait; the activity came at a later time), the task
\* ends after the wait without queueing a request and the persona is no
\* longer marked as being processed.
C31_RecheckReturns ==
    [][(/\ tasks[1].pc = "sleep3"
        /\ tasks'[1].pc # "sleep3"
        /\ session.exists
        /\ last_activity > 0)
       => /\ tasks'[1].pc = "done"
          /\ Persona \notin processing_channels'
          /\ response_queue' = response_queue]_vars

\* C32: when the persona's session is gone at the moment its completion
\* callback starts, the callback ends at once: nothing is delivered, the
\* message cache and the session store are left as they were, and the persona
\* is no longer marked as being processed.
C32_GoneAtCallback ==
    [][\A w \in Workers :
          (/\ worker[w].pc = "callback"
           /\ worker'[w].pc # "callback"
           /\ ~session.exists)
          => /\ worker'[w].pc = "pause"
             /\ worker'[w].delivered = worker[w].delivered
             /\ messages_cache' = messages_cache
             /\ session' = session
             /\ storeVars' = storeVars
             /\ Persona \notin processing_channels']_vars

\* a callback has run for a request, the persona is gone, nothing was
\* delivered and the worker is back in its loop
C32_Witness ==
    \E w \in Workers :
        /\ worker[w].pc = "pause"
        /\ ~session.exists
        /\ ~worker[w].delivered
        /\ cb_log[worker[w].req.id] # <<>>
        /\ worker[w].response = cb_log[worker[w].req.id][1]
        /\ Persona \notin processing_channels

\* C33: the text a request's completion callback is called with comes from
\* that request alone: it never holds the reply the upstream gave to another
\* request (every reply text of the model names the request it answers).
C33_OwnReply ==
    \A r \in Requests : \A i \in 1..Len(cb_log[r]) : \A j \in 1..Len(cb_log[r][i]) :
        cb_log[r][i][j] \notin (Requests \ {r})

\* SpecClear: the persona of channel c1 from captured message to delivered
\* reply, while users write in another channel of the server that has session
\* data.
ElsewhereMsgs ==
    {m \in Msgs : /\ m.channel # PersonaChannel /\ m.author = Bob
                  /\ ~m.webhook /\ ~m.reply /\ m.content = <<"hi">>}

\* on_message for a message m posted in another channel that has session
\* data: read_channel_messages (lines 130-164) starts _process_channel_message
\* for every channel of the server with session data, the persona's channel
\* included.  Each call captures the message (capture_message files it under
\* the message's own channel) and sets last_message_time and awaiting_response
\* of every AI of its target channel (lines 216-221).  monitor_inactivity then
\* looks at the message's channel only.
OnMessageElsewhere(m) ==
    LET own == capture_message(messages_cache, session_cache, cap_config, m)
    IN
    /\ n_captures < MaxCaptures
    /\ get_session_data(session_cache, m.channel) # NoneVal
    /\ n_captures' = n_captures + 1
    /\ messages_cache' = IF session.exists
                         THEN capture_message(own, session_cache, cap_config, m)
                         ELSE own
    /\ last_msg' = m
    /\ session' = Touched(PersonaChannel)
    /\ last_activity' = last_activity
    /\ UNCHANGED <<now, gen_config, processing_channels, monitor, tasks, remover, clear_log>>
    /\ UNCHANGED <<storeVars, cap_config, dispVars>>
    /\ UNCHANGED chatVars

NextClear ==
    \/ Tick
    \/ OnMessage(Ann, MaxCaptures)
    \/ \E m \in ElsewhereMsgs : OnMessageElsewhere(m)
    \/ MonPoll
    \/ MonRead
    \/ MonDecide
    \/ NextGeneration

InitSpecClear == IdleStore /\ IdleCapture /\ InitDispatch /\ IdlePipeline

SpecClear == InitSpecClear /\ [][NextClear]_vars

\* C34: the write-back of remove_sent_messages_from_cache for the persona's
\* channel leaves the cache entry of every other channel as it is, whatever
\* was captured for those channels since the clear read the file.
C34_OthersKept ==
    [][\A w \in Workers :
          (worker[w].pc = "clear_write" /\ worker'[w].pc # "clear_write")
          => \A k \in Keys \ {PersonaChannel} : messages_cache'[k] = messages_cache[k]]_vars

\* C35: a message received in another channel of the server leaves the
\* last_message_time and awaiting_response of the persona bound to channel c1
\* as they were.
C35_OnlyOwnChannel ==
    [][(n_captures' = n_captures + 1 /\ last_msg'.channel # PersonaChannel)
       => /\ session'.last_message_time = session.last_message_time
          /\ session'.awaiting_response = session.awaiting_response]_vars

\* SpecShared: two personas bound to channel c1.  Their monitors fired for
\* the same cached message, and both AI_send_message tasks found the cache
\* non-empty (line 284), slept and queued a request (lines 377-396): r1 is the
\* request of one persona, r2 that of the other.  The workers and the
\* callbacks do the rest.  Both callbacks clear the channel's cache entry; the
\* sessions of the two personas are moved alike and the model keeps one.
InitShared ==
    /\ now = 0
    /\ session = [exists |-> TRUE, awaiting_response |-> TRUE, last_message_time |-> 0,
                  chat_id |-> 1, muted_users |-> {},
                  channel_chat_id |-> NoChat]
    /\ gen_config = [delay_for_generation |-> 0, cache_count_threshold |-> SizeTrigger,
                     remove_ai_emoji |-> TRUE, send_message_line_by_line |-> TRUE]
    /\ processing_channels = {Persona}
    /\ monitor = [pc |-> "sleep", cache_count |-> 1, others |-> 0]
    /\ tasks = <<>>
    /\ remover = [pc |-> "idle", cache_data |-> <<>>]
    /\ last_activity = 0
    /\ clear_log = {}
    /\ chat_cmd = [c \in ChatCommands |-> "done"]
    /\ created = 1
    /\ IdleLocks
    /\ response_queue = <<[id |-> "r1", channel |-> PersonaChannel, ids_ok |-> TRUE],
                          [id |-> "r2", channel |-> PersonaChannel, ids_ok |-> TRUE]>>
    /\ submitted = Requests
    /\ api_permits = ApiPermits
    /\ AI_response = <<>>
    /\ worker = [w \in Workers |-> IdleWorker]
    /\ sends = [r \in Requests |-> <<>>]
    /\ cb_log = [r \in Requests |-> <<>>]

NextShared ==
    \/ \E w \in Workers : WGet(w)
    \/ \E w \in Workers : WRead(w)
    \/ \E w \in Workers : WStart(w)
    \/ \E w \in Workers, ok \in BOOLEAN : WClient(w, ok)
    \/ \E w \in Workers, outcome \in PipelineOutcomes : WSend(w, outcome)
    \/ \E w \in Workers : WClose(w)
    \/ \E w \in Workers : CbStart(w)
    \/ \E w \in Workers, ok \in BOOLEAN : CbDeliver(w, ok)
    \/ \E w \in Workers : CbClearRead(w)
    \/ \E w \in Workers : CbClearWrite(w)
    \/ \E w \in Workers : CbUpdate(w)
    \/ \E w \in Workers : WPause(w)

InitSpecShared == IdleStore /\ PromptCache /\ InitShared

SpecShared == InitSpecShared /\ [][NextShared]_vars

\* C36: with two personas in one channel, every queued request finds the
\* messages it was triggered for when a worker reads the cache for it: the
\* prompt it assembles is not empty, whatever the other persona's generation
\* has done in the meantime.
C36_PromptNotEmpty ==
    [][\A w \in Workers :
          (worker[w].pc = "read" /\ worker'[w].pc # "read")
          => worker'[w].messages # <<>>]_vars

InitSpecFile == IdleStore /\ IdleCapture /\ InitDispatch /\ IdlePipeline

SpecFile == InitSpecFile /\ [][NextFile]_vars

\* C37: no read_json or write_json call is ever blocked forever on
\* session_lock: a thread never waits for the lock while holding it itself
\* (nobody else can release it), whatever read_json found in place of the
\* file.
C37_LockFreed ==
    \A c \in Callers : file_call[c].pc = "acquire" => session_lock # c

\* C38: at every moment at most one monitor task of the persona is alive,
\* however many messages come in and however they interleave with the
\* monitor's rounds, removals and generations.
C38_OneMonitor ==
    (IF monitor.pc \in {"sleep", "read", "decide"} THEN 1 ELSE 0) + monitor.others <= 1

\* a second message has been handled while the monitor started for the first
\* one was alive (the persona was never removed: no generation has begun)
C38_Witness ==
    /\ n_captures >= 2
    /\ monitor.pc = "decide"
    /\ session.exists
    /\ remover.pc = "idle"
    /\ tasks = <<>>

\* messages sent to the channel in one run of SpecLive
LiveMessages == 2

\* SpecLive: the pipeline of one persona that stays set up, with calls that
\* return: get_client, send_message, typing() and the delivery succeed.  The
\* event loop runs every task that is ready: the steps of the monitor, of the
\* response tasks and of each worker are weakly fair.  Messages come when
\* users write them.
MonitorStep == MonPoll \/ MonRead \/ MonDecide

TaskStep ==
    \/ \E i \in 1..Len(tasks) : SendStart(i)
    \/ \E i \in 1..Len(tasks) : SendRead(i)
    \/ \E i \in 1..Len(tasks) : SendResume(i)
    \/ \E i \in 1..Len(tasks) : SendRecheck(i)
    \/ \E i \in 1..Len(tasks) : SendQueue(i, TRUE)

LiveWorkerStep(w) ==
    \/ WGet(w)
    \/ WRead(w)
    \/ WStart(w)
    \/ WClient(w, TRUE)
    \/ \E outcome \in PipelineOutcomes : WSend(w, outcome)
    \/ WClose(w)
    \/ CbStart(w)
    \/ CbDeliver(w, TRUE)
    \/ CbClearRead(w)
    \/ CbClearWrite(w)
    \/ CbUpdate(w)
    \/ WPause(w)

NextLive ==
    \/ OnMessage(Ann, LiveMessages)
    \/ MonitorStep
    \/ TaskStep
    \/ \E w \in Workers : LiveWorkerStep(w)

InitSpecLive == IdleStore /\ IdleCapture /\ InitDispatch /\ IdlePipeline

SpecLive ==
    /\ InitSpecLive
    /\ [][NextLive]_vars
    /\ WF_vars(MonitorStep)
    /\ WF_vars(TaskStep)
    /\ \A w \in Workers : WF_vars(LiveWorkerStep(w))

\* the completion callback is being invoked for a request whose prompt holds
\* the n-th message
Answered(n) ==
    \E w \in Workers :
        /\ worker[w].pc = "callback"
        /\ \E j \in 1..Len(worker[w].messages) : worker[w].messages[j] = MsgTok[n]

\* C39: when a message has been captured for the persona's channel and
\* nothing else happens in the channel afterwards, a generation request that
\* covers the message is eventually submitted and its completion callback is
\* eventually invoked.
C39_Answered ==
    \A n \in 1..LiveMessages :
        <>[](n_captures = n /\ session.exists) => <>Answered(n)

\* what holds: a message that is the only one of the run is answered
FirstMessageAnswered == <>[](n_captures = 1 /\ session.exists) => <>Answered(1)

====
